---- MODULE Spec2Model ----
(***************************************************************************)
(* State-machine model of the iOhouse data-update coordinator              *)
(* (src/coordinator.py, IOhouseDataUpdateCoordinator): the poll tick with  *)
(* its Discovery / Regular phases and failure handler, the confirmed-value *)
(* cache, send_command with its debounce, and the network-free refresh.    *)
(*                                                                         *)
(* Time is counted in half seconds, so that 1.5 s and 2.0 s are integers.  *)
(* The code reads the clock only to subtract a stored time stamp from it,  *)
(* so time is measured from the present instant: the clock reads 0 in      *)
(* every state, a stored stamp is zero or negative, and the passing of d   *)
(* half seconds moves every stored stamp d further into the past.  A stamp *)
(* is compared with one constant only (its horizon): ages beyond the       *)
(* horizon are one value, and ages between a stamp's follow bound and its  *)
(* horizon are one value too, which only a long wait carries further.      *)
(* A parameter key "<zone>_<param>" is the pair <<zone, param>>, a         *)
(* device-wide key "<name>" is the 1-tuple <<name>>.                       *)
(* Every coroutine is cut at its awaits on the network: the code between   *)
(* two awaits is one atomic action (asyncio runs it without interleaving). *)
(***************************************************************************)
EXTENDS Integers, Sequences, FiniteSets, TLC

\* ------------------------------------------------------------ constants
\* self._cache_ttl = 2.0 (seconds)
_cache_ttl == 4
\* self._command_debounce = 1.5 (seconds)
_command_debounce == 3
\* self._max_errors = 3
_max_errors == 3
\* DISCOVERY_INTERVAL = timedelta(minutes=5), .total_seconds()
discovery_interval == 600
\* REGULAR_UPDATE_INTERVAL = timedelta(seconds=20)
REGULAR_UPDATE_INTERVAL == 40
\* ERROR_RETRY_DELAY = timedelta(seconds=60)
ERROR_RETRY_DELAY == 120
\* async_timeout.timeout(5) in send_command
CommandTimeout == 10
\* async_timeout.timeout(8) in _discovery_phase
DiscoveryTimeout == 16
\* async_timeout.timeout(6) in _regular_update_phase
RegularTimeout == 12
\* async_timeout.timeout(6) in _delayed_refresh_zone_data
RefreshTimeout == 12

DEFAULT_ZONES == {"a1", "a2", "b1", "b2"}

common_keys ==
  {<<"summermode">>, <<"avalible_update">>, <<"fWversion">>, <<"u_version">>,
   <<"out1">>, <<"out2">>, <<"out3">>, <<"out4">>,
   <<"out5">>, <<"out6">>, <<"out7">>, <<"out8">>}

\* --------------------------------------------------------------- bounds
\* the age, in half seconds, up to which a pending command request is
\* followed half second by half second
MaxElapsed == 4
\* the same for a pending poll request and for the last Discovery
MaxPollElapsed == 1
\* send_command calls waiting for the device at the same time
MaxInflight == 1
\* _delayed_refresh_zone_data tasks waiting for the device at the same time
MaxRefresh == 1
\* send_command calls of rival callers waiting for the device at the same time
MaxRivals == 2
\* cap of the consecutive-failure counter
MaxErrorCount == 4

\* the clock advances by one TTL or by one whole discovery interval
CoarseSteps == {_cache_ttl, discovery_interval}
\* the clock advances by half a second or by one whole discovery interval
TimeSteps == {1, discovery_interval}

\* ------------------------------------------------- inputs from the device
\* the sets of zones a poll response may carry data for
DeviceZoneSets == {{}, {"a1"}}
\* the same for the scheduler explored alone; "c9" is a zone the integration
\* does not know
SchedZoneSets == {{}, {"a1"}, {"a1", "b2"}, {"a2", "b1"}, {"b2", "c9"}}
\* what a caller of create_common_freeze passes: a key and a value (a token
\* no poll and no command response carries)
FreezeParams == {<<"summermode">>}
FreezeValues == {2}
\* the zones a caller of _delayed_refresh_zone_data passes
RefreshZoneSets == {{"a1"}}
\* the zones whose keys the response to a delayed refresh carries: none, the
\* zone asked for, or that zone and another beside it
RefreshResponseZoneSets == {{}, {"a1"}, {"a1", "b1"}}
\* the values the device reports (abstract tokens)
PolledValues == {0}
\* the entry's configured zones, entry.data[CONF_ZONES]
ConfiguredZones == {{"a1"}}

\* the zones of the device that drive a valve
ValveZones == {"a1", "b1"}

\* a poll response body: every zone in zs reports target_temp = v, the
\* zones with a valve report valve_pos = v as well, and the common block
\* reports summermode = v
RawData(zs, v) ==
  [k \in {<<z, "target_temp">> : z \in zs}
         \cup {<<z, "valve_pos">> : z \in zs \cap ValveZones}
         \cup {<<"summermode">>} |-> v]

\* a command string is the sequence of its key=value pairs; the one explored
\* is "a1_target_temp=1&summermode=1", one zone key and one common key
Commands == {<< <<<<"a1", "target_temp">>, 1>>, <<<<"summermode">>, 1>> >>}

\* two command strings that set the same key to different values,
\* "a1_target_temp=1" and "a1_target_temp=3"
RivalCommands ==
  {<< <<<<"a1", "target_temp">>, 1>> >>, << <<<<"a1", "target_temp">>, 3>> >>}

\* every command string a specification sends
AllCommands == Commands \cup RivalCommands

\* the body of a success response: status plus the command's pairs echoed
EchoBody(command) ==
  [k \in {command[i][1] : i \in 1..Len(command)} |->
     command[CHOOSE i \in 1..Len(command) : command[i][1] = k][2]]

None == "None"
\* self.data before the first successful poll (Python's None)
NoSnapshot ==
  [present |-> FALSE, zones |-> [z \in {} |-> 0], common |-> [k \in {} |-> 0],
   active_zones |-> {}]

\* ------------------------------------------------------------- helpers
Restrict(f, S) == [k \in S |-> f[k]]
Put(f, k, v) == [x \in DOMAIN f \cup {k} |-> IF x = k THEN v ELSE f[x]]
Empty == [k \in {} |-> 0]

\* ---------------------------------------------------------------- state
VARIABLES
  active_zones,       \* self.active_zones
  last_discovery,     \* self.last_discovery
  _error_count,       \* self._error_count
  update_interval,    \* self.update_interval
  _confirmed_cache,   \* self._confirmed_cache
  _cache_timestamps,  \* self._cache_timestamps
  _last_commands,     \* self._last_commands
  data,               \* self.data, the snapshot the accessors read
  last_update_success,\* DataUpdateCoordinator.last_update_success
  last_exception,     \* what the last tick raised to the base class
  poll,               \* the poll tick in progress (_async_update_data), with
                      \* the keys commands confirmed and the facade showed
                      \* while its request was out
  inflight,           \* send_command calls waiting for the device
  tick,               \* history: facts of the tick that finished last
  tx,                 \* history: per command, its last transmission
  last_return,        \* history: the send_command call that has just returned
  fail_run,           \* history: failed ticks in a row since Normal/0
  entered_degraded,   \* history: the last tick switched to the retry delay
  disc,               \* history: the zone set of the last timed Discovery,
                      \* and the set the consumers were told: the one they
                      \* were set up with, then the one the last "zones
                      \* changed" event carried
  refresh,            \* _delayed_refresh_zone_data tasks waiting for the device
  last_poll,          \* history: how the last tick ended, and the zones that
                      \* had data in the last tick that ended well
  try_counter,        \* climate.py: the module-level try_counter
  climate,            \* climate.py: the IOhouseClimateCoordinator of each
                      \* config entry
  reader,             \* a consumer: the object the read accessor it called
                      \* last returned to it
  firmware,           \* update.py: the IOhouseFirmwareUpdateEntity, its
                      \* _progress_task, and what the task did in its last step
  thermostat,         \* climate.py: the IOhouseClimateEntity of a zone, the
                      \* zone's entry in its coordinator's data, and the
                      \* preset written to the state machine last
  device,             \* the device: whether it has come to answer every
                      \* request well, and the zones it then reports
  updater             \* update.py: the IOhouseFirmwareUpdateEntity with the
                      \* async_install calls, monitoring tasks and completion
                      \* checks that run on it

vars ==
  <<active_zones, last_discovery, _error_count, update_interval,
    _confirmed_cache, _cache_timestamps, _last_commands, data,
    last_update_success, last_exception, poll, inflight, tick, tx,
    last_return, fail_run, entered_degraded, disc, refresh, last_poll,
    try_counter, climate, reader, firmware, thermostat, device, updater>>

\* the state of the platforms beside the coordinator
platform_vars == <<try_counter, climate, reader, firmware, thermostat, device, updater>>

coordinator_vars ==
  <<active_zones, last_discovery, _error_count, update_interval,
    _confirmed_cache, _cache_timestamps, _last_commands, data,
    last_update_success, last_exception>>

history_vars == <<tick, tx, last_return, fail_run, entered_degraded, disc>>

\* ------------------------------------------------- key.startswith, key[3:]
\* key.startswith(f"{zone}_")
StartsWithZone(key, zone) == Len(key) = 2 /\ key[1] = zone
\* key[3:], the parameter name behind a two-letter zone and "_"
StripZone(key) == key[2]
\* f"{zone}_{param_name}"
CacheKey(zone, param_name) == <<zone, param_name>>

\* ------------------------------------------- _process_data_with_cache
\* the sweep with the entries of exactly the TTL's age deleted too
ExpiredKeys_Inclusive(timestamps, current_time) ==
  {k \in DOMAIN timestamps : current_time - timestamps[k] >= _cache_ttl}

\* the keys the sweep deletes at current_time
ExpiredKeys(timestamps, current_time) ==
  {k \in DOMAIN timestamps : current_time - timestamps[k] > _cache_ttl}

SweptKeys(cache, timestamps, current_time) ==
  {k \in ExpiredKeys(timestamps, current_time) : k \in DOMAIN cache}

\* the freshness test with the boundary on the wrong side
CacheFresh_Inclusive(cache, timestamps, key, current_time) ==
  /\ key \in DOMAIN cache
  /\ key \in DOMAIN timestamps
  /\ current_time - timestamps[key] <= _cache_ttl

\* is the cache entry of key fresh at current_time
CacheFresh(cache, timestamps, key, current_time) ==
  /\ key \in DOMAIN cache
  /\ key \in DOMAIN timestamps
  /\ current_time - timestamps[key] < _cache_ttl

\* the polled value put into the snapshot whatever the cache holds
Resolve_Polled(cache, timestamps, key, value, current_time) == value

\* the value a poll puts into the snapshot for key
Resolve(cache, timestamps, key, value, current_time) ==
  IF CacheFresh(cache, timestamps, key, current_time)
    THEN cache[key]
    ELSE value

ZoneData(raw_data, zone, cache, timestamps, current_time) ==
  [param_name \in
     {StripZone(key) : key \in {k \in DOMAIN raw_data : StartsWithZone(k, zone)}}
   |-> Resolve(cache, timestamps, CacheKey(zone, param_name),
               raw_data[<<zone, param_name>>], current_time)]

\* an entry made for every zone processed, its zone_data empty or not
ZonesWithData_All(raw_data, zones_to_process) == zones_to_process

\* the zones of zones_to_process whose zone_data is not empty
ZonesWithData(raw_data, zones_to_process) ==
  {zone \in zones_to_process :
     \E k \in DOMAIN raw_data : StartsWithZone(k, zone)}

\* processed_data, built from the cache as it is after the sweep
\* (its "timestamp" field is read by nobody and is left out)
ProcessedData(raw_data, zones_to_process, cache, timestamps, current_time) ==
  LET swept == SweptKeys(cache, timestamps, current_time)
      c == Restrict(cache, DOMAIN cache \ swept)
      t == Restrict(timestamps, DOMAIN timestamps \ swept)
  IN [present |-> TRUE,
      zones |->
        [zone \in ZonesWithData(raw_data, zones_to_process) |->
           ZoneData(raw_data, zone, c, t, current_time)],
      common |->
        [key \in {k \in common_keys : k \in DOMAIN raw_data} |->
           Resolve(c, t, key, raw_data[key], current_time)],
      active_zones |-> ZonesWithData(raw_data, zones_to_process)]

\* ----------------------------------------- _trigger_immediate_update
\* every fresh cache entry of a zone put into the snapshot, the zone and the
\* parameter added where the snapshot has none
ImmediateUpdate_Adding(snapshot, cache, timestamps, current_time) ==
  IF ~snapshot.present
    THEN snapshot
    ELSE LET fresh == {k \in DOMAIN cache :
                         /\ Len(k) = 2
                         /\ CacheFresh(cache, timestamps, k, current_time)}
             old(zone) == IF zone \in DOMAIN snapshot.zones
                            THEN snapshot.zones[zone] ELSE Empty
         IN [snapshot EXCEPT
               !.zones =
                 [zone \in DOMAIN snapshot.zones \cup {k[1] : k \in fresh} |->
                    [param_name \in DOMAIN old(zone) \cup
                                    {k[2] : k \in {f \in fresh : f[1] = zone}} |->
                       IF CacheKey(zone, param_name) \in fresh
                         THEN cache[CacheKey(zone, param_name)]
                         ELSE old(zone)[param_name]]],
               !.common =
                 [key \in DOMAIN snapshot.common |->
                    IF CacheFresh(cache, timestamps, key, current_time)
                      THEN cache[key]
                      ELSE snapshot.common[key]]]

\* updated_data: the snapshot with every fresh cache entry laid over it
ImmediateUpdate(snapshot, cache, timestamps, current_time) ==
  IF ~snapshot.present
    THEN snapshot
    ELSE [snapshot EXCEPT
            !.zones =
              [zone \in DOMAIN snapshot.zones |->
                 [param_name \in DOMAIN snapshot.zones[zone] |->
                    IF CacheFresh(cache, timestamps,
                                  CacheKey(zone, param_name), current_time)
                      THEN cache[CacheKey(zone, param_name)]
                      ELSE snapshot.zones[zone][param_name]]],
            !.common =
              [key \in DOMAIN snapshot.common |->
                 IF CacheFresh(cache, timestamps, key, current_time)
                   THEN cache[key]
                   ELSE snapshot.common[key]]]

\* ------------------------------------------------------ read accessors
get_zone_data(zone) ==
  IF ~data.present THEN Empty
  ELSE IF zone \in DOMAIN data.zones THEN data.zones[zone] ELSE Empty

get_common_data ==
  IF ~data.present THEN Empty ELSE data.common

\* the property available_zones: the snapshot's set of zones with data
available_zones ==
  IF ~data.present THEN {} ELSE data.active_zones

\* valve.py: the keys that show a zone drives a valve
valve_keys == {"valve_pos", "valve_opening", "valve_closing", "valve_closed"}

_has_valve_data(zone_data) == \E key \in valve_keys : key \in DOMAIN zone_data

\* a zone reported available whatever the last poll did
ZoneAvailable_Stale(zone) ==
  /\ zone \in available_zones
  /\ _has_valve_data(get_zone_data(zone))

\* IOhouseValveEntity.available: the zone as its consumer reports it
ZoneAvailable(zone) ==
  /\ last_update_success
  /\ zone \in available_zones
  /\ _has_valve_data(get_zone_data(zone))

\* what a consumer reads for a parameter key: the set holding the value,
\* empty when the accessor's map has no such key
FacadeRead(key) ==
  IF Len(key) = 2
    THEN IF key[2] \in DOMAIN get_zone_data(key[1])
           THEN {get_zone_data(key[1])[key[2]]} ELSE {}
    ELSE IF key \in DOMAIN get_common_data
           THEN {get_common_data[key]} ELSE {}

\* ------------------------------------------------------------- initial
IdlePoll ==
  [pc |-> "idle", phase |-> "none", current_time |-> 0, sent_at |-> 0,
   request_zones |-> {}, active_at_start |-> {}, interval_at_start |-> 0,
   first_after_degraded |-> FALSE, count_at_start |-> 0, shown |-> {}]

NoTick ==
  [phase |-> "none", last_answer |-> "none", recovery |-> FALSE,
   request_zones |-> {}, zones_to_process |-> {}, raw_data |-> Empty,
   cache |-> Empty, timestamps |-> Empty,
   event |-> FALSE, repeated |-> FALSE, between |-> FALSE,
   before_count |-> 0, before_interval |-> 0,
   answer |-> "none", events |-> << >>, active_at_start |-> {},
   count_at_start |-> 0, interval_at_start |-> 0, shown |-> {}]

NoTx == [time |-> 0, requests |-> 0, state |-> "none", suppressed |-> "none"]

\* time.time(): the present instant is the origin of the time axis
now == 0

\* a stamp t after d half seconds have passed: its age grows by d; an age
\* above horizon is horizon + 1, an age between follow and horizon is follow
Past(t, d, follow, horizon) ==
  LET age == (now - t) + d
  IN IF age > horizon THEN now - (horizon + 1)
     ELSE IF age = horizon THEN now - horizon
     ELSE IF age > follow THEN now - follow
     ELSE now - age

\* the config entries of two devices, each with its own
\* IOhouseClimateCoordinator
ClimateEntries == {"entry1", "entry2"}

\* "if try_counter > 5": the failures after which the data is kept
TryLimit == 5

\* the highest value the model lets try_counter reach
MaxTryCounter == 7

\* no accessor called yet
NoRead ==
  [accessor |-> "none", zone |-> "", map |-> Empty, set |-> {},
   copy |-> TRUE, mutated |-> FALSE, turn |-> FALSE]

\* the zone flags a preset is made of
PresetFlags == {"nightmode", "away_mode", "eco_mode"}

\* data.get(f"{zone}_{flag}", 0) of the zone's entry
FlagValue(zone_data, flag) ==
  IF flag \in DOMAIN zone_data THEN zone_data[flag] ELSE 0

\* bool(...) of a JSON number
Bool(value) == value # 0

\* the precedence with away_mode tested before nightmode
preset_mode_AwayFirst(_nightmode, away_mode, eco_mode) ==
  IF away_mode THEN "away"
  ELSE IF _nightmode THEN "sleep"
  ELSE IF ~eco_mode THEN "comfort"
  ELSE "home"

\* the property preset_mode, test by test; a bool equals 0 when it is False
\* and 1 when it is True
preset_mode(_nightmode, away_mode, eco_mode) ==
  IF _nightmode THEN "sleep"
  ELSE IF away_mode THEN "away"
  ELSE IF ~eco_mode /\ ~away_mode THEN "comfort"
  ELSE IF ~eco_mode /\ away_mode THEN "away"
  ELSE IF eco_mode /\ away_mode THEN "away"
  ELSE IF ~_nightmode /\ ~away_mode /\ ~eco_mode THEN "comfort"
  ELSE IF ~_nightmode /\ ~away_mode /\ eco_mode THEN "home"
  ELSE "home"

\* _update_internal_state on the zone's entry, followed by the write of
\* the entity's state
InternalState(entity, has_entry, zone_data) ==
  LET d == IF has_entry THEN zone_data ELSE Empty
      night == Bool(FlagValue(d, "nightmode"))
      away == Bool(FlagValue(d, "away_mode"))
      eco == Bool(FlagValue(d, "eco_mode"))
  IN [entity EXCEPT !.has_entry = has_entry, !.data = d,
                    !._nightmode = night, !.away_mode = away,
                    !.eco_mode = eco,
                    !.reported = preset_mode(night, away, eco)]

\* IOhouseClimateEntity.__init__ for a zone that was discovered with no
\* flag in its data
NewClimateEntity ==
  [has_entry |-> TRUE, data |-> Empty, _nightmode |-> FALSE,
   away_mode |-> FALSE, eco_mode |-> FALSE, reported |-> "comfort",
   pending |-> "none", requested |-> "none", confirmed |-> FALSE]

\* the async_install calls the model follows
MaxInstallCalls == 2
CallIds == 1..MaxInstallCalls

\* the completion checks _handle_coordinator_update has created and that
\* have not ended
MaxCheckTasks == 2

\* where a task running _check_update_completion stands: created, or in
\* _handle_update_success at its first or second notification call
CheckPcs == {"start", "success_dismiss", "success_show"}

\* no monitoring task created by the call
NoMonitor == [pc |-> "none", must_cancel |-> FALSE, check_num |-> 0]

\* IOhouseFirmwareUpdateEntity.__init__ with an update on offer; no call of
\* async_install made
NewUpdater ==
  [_installing |-> FALSE, avalible_update |-> 1, _progress_task |-> 0,
   call |-> [i \in CallIds |-> "new"],
   monitor |-> [i \in CallIds |-> NoMonitor],
   checks |-> [pc \in CheckPcs |-> 0],
   flashes |-> 0, started |-> 0, shown |-> 0, written |-> 0]

\* a device that answers as it likes
AnyDevice == [stable |-> FALSE, zones |-> {}]

\* IOhouseFirmwareUpdateEntity.__init__, added to hass, no task created
NewFirmwareEntity ==
  [_installing |-> FALSE, install |-> "idle", task |-> "none", check_num |-> 0,
   must_cancel |-> FALSE, outcome |-> "none", removed |-> FALSE,
   at_teardown |-> "none", effect |-> {}]

\* IOhouseClimateCoordinator.__init__
NewClimateCoordinator ==
  [pc |-> "idle", _available |-> FALSE, data |-> Empty, active_zones |-> {}]

\* self.last_discovery = 0, the epoch: further back than any interval
LongAgo == 0 - (discovery_interval + 1)

Init ==
  /\ active_zones \in ConfiguredZones
  /\ last_discovery = LongAgo
  /\ _error_count = 0
  /\ update_interval = REGULAR_UPDATE_INTERVAL
  /\ _confirmed_cache = Empty
  /\ _cache_timestamps = Empty
  /\ _last_commands = Empty
  /\ data = NoSnapshot
  /\ last_update_success = TRUE
  /\ last_exception = None
  /\ poll = IdlePoll
  /\ inflight = {}
  /\ tick = NoTick
  /\ tx = [c \in AllCommands |-> NoTx]
  /\ last_return = {}
  /\ fail_run = 0
  /\ entered_degraded = FALSE
  /\ disc = [reports |-> << >>, since |-> FALSE, fired |-> <<active_zones>>]
  /\ refresh = {}
  /\ last_poll = [outcome |-> "none", zones |-> {}]
  /\ try_counter = 0
  /\ climate = [entry \in ClimateEntries |-> NewClimateCoordinator]
  /\ reader = NoRead
  /\ firmware = NewFirmwareEntity
  /\ thermostat = NewClimateEntity
  /\ device = AnyDevice
  /\ updater = NewUpdater

\* -------------------------------------------------------- read accessors

\* the read accessors of the coordinator
Accessors == {"get_zone_data", "get_common_data", "zones", "available_zones"}

\* the zone identifiers a consumer passes and puts into a set it was given:
\* "c9" is a zone the integration does not know
ReadZones == {"a1", "c9"}

\* the property zones
zones_property == active_zones

\* the set accessors handing out the coordinator's own set
ReturnsCopy_Never(accessor) == FALSE

\* zones and available_zones return .copy() of the set they read
ReturnsCopy(accessor) == accessor \in {"zones", "available_zones"}

\* a consumer calls a read accessor and keeps what it returns
ReadAccessor(accessor, zone) ==
  /\ reader' =
       [accessor |-> accessor,
        zone |-> IF accessor = "get_zone_data" THEN zone ELSE "",
        map |-> IF accessor = "get_zone_data" THEN get_zone_data(zone)
                ELSE IF accessor = "get_common_data" THEN get_common_data
                ELSE Empty,
        set |-> IF accessor = "zones" THEN zones_property
                ELSE IF accessor = "available_zones" THEN available_zones
                ELSE {},
        copy |-> ReturnsCopy(accessor),
        mutated |-> FALSE,
        turn |-> ~reader.turn]
  /\ tick' = NoTick
  /\ last_return' = {}
  /\ UNCHANGED <<coordinator_vars, poll, inflight, tx, fail_run, last_poll,
                 entered_degraded, disc, refresh, try_counter, climate,
                 firmware, thermostat, device, updater>>

\* the consumer adds a zone to the set an accessor returned to it: where the
\* set is the coordinator's own object, the coordinator's set has it too
MutateReturned(zone) ==
  /\ reader.accessor \in {"zones", "available_zones"}
  /\ ~reader.mutated
  /\ zone \notin reader.set
  /\ reader' = [reader EXCEPT !.set = @ \cup {zone}, !.mutated = TRUE,
                              !.turn = ~@]
  /\ active_zones' =
       IF reader.accessor = "zones" /\ ~reader.copy
         THEN active_zones \cup {zone} ELSE active_zones
  /\ data' =
       IF reader.accessor = "available_zones" /\ ~reader.copy /\ data.present
         THEN [data EXCEPT !.active_zones = @ \cup {zone}] ELSE data
  /\ tick' = NoTick
  /\ last_return' = {}
  /\ UNCHANGED <<last_discovery, _error_count, update_interval,
                 _confirmed_cache, _cache_timestamps, _last_commands,
                 last_update_success, last_exception, poll, inflight, tx,
                 fail_run, last_poll, entered_degraded, disc, refresh,
                 try_counter, climate, firmware, thermostat, device, updater>>

\* ---------------------------------------------------- climate.py presets

SUPPORT_PRESETS == {"comfort", "away", "eco", "home", "sleep"}

\* the presets a caller asks for: the supported ones and one that is not
RequestedPresets == SUPPORT_PRESETS \cup {"boost"}

\* the flag values a device reports for a zone
FlagMaps == [PresetFlags -> {0, 1}]

\* the assignments of the command async_set_preset_mode builds
PresetCommand(preset) ==
  IF preset = "away"
    THEN [flag \in {"away_mode", "nightmode"} |->
            IF flag = "away_mode" THEN 1 ELSE 0]
  ELSE IF preset = "eco" THEN [flag \in {"eco_mode"} |-> 1]
  ELSE IF preset = "comfort"
    THEN [flag \in {"away_mode", "eco_mode", "nightmode"} |-> 0]
  ELSE IF preset = "home" THEN [flag \in {"away_mode"} |-> 0]
  ELSE [flag \in {"nightmode"} |-> 1]

\* dict.update
Updated(zone_data, params) ==
  [k \in DOMAIN zone_data \cup DOMAIN params |->
     IF k \in DOMAIN params THEN params[k] ELSE zone_data[k]]

\* what the other variables of the model do in a step of the entity
ThermostatFrame ==
  /\ tick' = NoTick
  /\ last_return' = {}
  /\ UNCHANGED <<coordinator_vars, poll, inflight, tx, fail_run, last_poll,
                 entered_degraded, disc, refresh, try_counter, climate,
                 reader, firmware, device, updater>>

\* a discovery of the entity's coordinator stores the zone's data, and the
\* entity's async_update reads it
ThermostatPolled(flags) ==
  /\ thermostat' =
       [InternalState(thermostat, TRUE, flags) EXCEPT
          !.requested = "none", !.confirmed = FALSE]
  /\ ThermostatFrame

\* a discovery that failed leaves the coordinator's data empty
ThermostatPollFailed ==
  /\ thermostat' =
       [InternalState(thermostat, FALSE, Empty) EXCEPT
          !.requested = "none", !.confirmed = FALSE]
  /\ ThermostatFrame

\* async_set_preset_mode: the command of a supported preset goes out, any
\* other preset is logged
async_set_preset_mode(preset) ==
  /\ thermostat.pending = "none"
  /\ thermostat' =
       [thermostat EXCEPT
          !.pending = IF preset \in SUPPORT_PRESETS THEN preset ELSE "none",
          !.requested = preset, !.confirmed = FALSE]
  /\ ThermostatFrame

\* _send_command: 200 and {"status": "ok"} with the command's assignments
\* echoed; the zone's entry is updated with them, the entity's fields are
\* read from it and the state written.  Without an entry for the zone the
\* update raises KeyError, which is logged
PresetConfirmed ==
  /\ thermostat.pending # "none"
  /\ thermostat' =
       IF thermostat.has_entry
         THEN [InternalState(thermostat, TRUE,
                 Updated(thermostat.data, PresetCommand(thermostat.pending)))
               EXCEPT !.pending = "none", !.confirmed = TRUE]
         ELSE [thermostat EXCEPT !.pending = "none", !.confirmed = TRUE]
  /\ ThermostatFrame

\* _send_command: any other status, body or error is logged
PresetFails ==
  /\ thermostat.pending # "none"
  /\ thermostat' = [thermostat EXCEPT !.pending = "none"]
  /\ ThermostatFrame

\* ------------------------------------------------- update.py monitoring

\* max_checks = 10: the checks _monitor_update_progress makes
max_checks == 10

\* the awaits at which _monitor_update_progress waits: the sleep before the
\* first check, async_request_refresh, the sleep between checks, the
\* notification of _handle_update_timeout, and the two notification calls of
\* _handle_update_success
SuspensionPoints ==
  {"initial_sleep", "refresh", "sleep", "timeout_notify", "success_dismiss",
   "success_show"}

\* how far _handle_update_success runs before a service call makes the task
\* wait: at the first call, at the second, or not at all
SuccessReach == {"success_dismiss", "success_show", "done"}

\* avalible_update as the check reads it from the coordinator's common data
UpdateFlags == {0, 1}

\* if self._progress_task and not self._progress_task.done(): cancel()
ShouldCancel(task) == task \notin {"none", "done"}

\* a teardown that leaves the task alone
TeardownCancels_Never(task) == FALSE

\* async_will_remove_from_hass makes the same test and the same call
TeardownCancels(task) == ShouldCancel(task)

\* what the other variables of the model do in a step of update.py
FirmwareFrame ==
  /\ tick' = NoTick
  /\ last_return' = {}
  /\ UNCHANGED <<coordinator_vars, poll, inflight, tx, fail_run, last_poll,
                 entered_degraded, disc, refresh, try_counter, climate,
                 reader, thermostat, device, updater>>

\* async_install: the update is available and none is running; the entity
\* is marked installing and the update command goes out
InstallRequested ==
  /\ ~firmware.removed
  /\ ~firmware._installing
  /\ firmware.install = "idle"
  /\ firmware.task \in {"none", "done"}
  /\ firmware' = [firmware EXCEPT !._installing = TRUE, !.install = "sending",
                                  !.effect = {}]
  /\ FirmwareFrame

\* send_update_command returns: on success the monitoring task is created,
\* otherwise _handle_update_error takes the mark back
InstallAnswered(success) ==
  /\ firmware.install = "sending"
  /\ firmware' =
       IF success
         THEN [firmware EXCEPT !.install = "idle", !.task = "initial_sleep",
                               !.check_num = 0, !.must_cancel = FALSE,
                               !.outcome = "none", !.effect = {}]
         ELSE [firmware EXCEPT !.install = "idle", !._installing = FALSE,
                               !.effect = {}]
  /\ FirmwareFrame

\* a sleep of the task is over: it asks the coordinator for a refresh
SleepOver ==
  /\ firmware.task \in {"initial_sleep", "sleep"}
  /\ ~firmware.must_cancel
  /\ firmware' =
       [firmware EXCEPT !.task = "refresh",
                        !.check_num = IF firmware.task = "sleep"
                                        THEN @ + 1 ELSE @,
                        !.effect = {"refresh_request"}]
  /\ FirmwareFrame

\* the refresh is over and _check_update_completion reads the flag: with
\* the flag down _handle_update_success clears the mark, cancels the task it
\* runs in, and calls the notification service; with the flag up the task
\* sleeps again, or after the last check calls _handle_update_timeout
RefreshReturns(flag, reach) ==
  /\ firmware.task = "refresh"
  /\ ~firmware.must_cancel
  /\ firmware' =
       IF flag = 0
         THEN [firmware EXCEPT
                 !._installing = FALSE,
                 !.task = reach,
                 !.must_cancel = reach # "done",
                 !.outcome = IF reach = "done" THEN "returned" ELSE @,
                 !.effect = IF reach = "done"
                              THEN {"notification", "state_write"}
                              ELSE {"notification"}]
         ELSE IF firmware.check_num < max_checks - 1
           THEN [firmware EXCEPT !.task = "sleep", !.effect = {}]
           ELSE [firmware EXCEPT !.task = "timeout_notify",
                                 !.effect = {"notification"}]
  /\ FirmwareFrame

\* the notification of _handle_update_timeout is out: the task returns
TimeoutNotified ==
  /\ firmware.task = "timeout_notify"
  /\ ~firmware.must_cancel
  /\ firmware' = [firmware EXCEPT !.task = "done", !.outcome = "returned",
                                  !.effect = {}]
  /\ FirmwareFrame

\* the task is resumed with a cancellation requested: CancelledError is
\* raised at the await it waits at, passes the handlers for Exception, and
\* is caught and logged by _monitor_update_progress
MonitorCancelled ==
  /\ firmware.task \in SuspensionPoints
  /\ firmware.must_cancel
  /\ firmware' = [firmware EXCEPT !.task = "done", !.outcome = "cancelled",
                                  !.must_cancel = FALSE, !.effect = {}]
  /\ FirmwareFrame

\* _handle_coordinator_update while installing: the check it starts finds
\* the flag down and _handle_update_success cancels the monitoring task
CoordinatorUpdateCompletes ==
  /\ ~firmware.removed
  /\ firmware._installing
  /\ firmware.install = "idle"
  /\ firmware' = [firmware EXCEPT !._installing = FALSE,
                                  !.must_cancel = @ \/ ShouldCancel(firmware.task),
                                  !.effect = {}]
  /\ FirmwareFrame

\* async_will_remove_from_hass: the entity is removed
Teardown ==
  /\ ~firmware.removed
  /\ firmware' = [firmware EXCEPT !.removed = TRUE,
                                  !.at_teardown = firmware.task,
                                  !.must_cancel = @ \/ TeardownCancels(firmware.task),
                                  !.effect = {}]
  /\ FirmwareFrame

\* ------------------------------------------------ update.py installing

\* the property update_available, for a u_version above fWversion
update_available ==
  IF updater._installing THEN FALSE
  ELSE updater.avalible_update = 1

\* what the other variables of the model do in a step of the updater
UpdaterFrame ==
  /\ tick' = NoTick
  /\ last_return' = {}
  /\ UNCHANGED <<coordinator_vars, poll, inflight, tx, fail_run, last_poll,
                 entered_degraded, disc, refresh, try_counter, climate,
                 reader, firmware, thermostat, device>>

\* if self._progress_task and not self._progress_task.done(): cancel()
CancelProgress(monitor, task) ==
  IF task # 0 /\ ShouldCancel(monitor[task].pc)
    THEN [monitor EXCEPT ![task].must_cancel = TRUE]
    ELSE monitor

\* the completion checks that have not ended
CheckTasks == updater.checks["start"] + updater.checks["success_dismiss"]
                + updater.checks["success_show"]

\* async_install up to its first await: refused when no update is
\* available or one is being installed; otherwise the entity is marked
\* installing and the coordinator asked for a refresh
async_install(i) ==
  /\ updater.call[i] = "new"
  /\ IF i = 1 THEN TRUE ELSE updater.call[i - 1] # "new"
  /\ updater' =
       IF update_available
         THEN [updater EXCEPT !._installing = TRUE, !.call[i] = "refresh",
                              !.flashes = 0, !.started = @ + 1]
         ELSE [updater EXCEPT !.call[i] = "returned"]
  /\ UpdaterFrame

\* async_request_refresh returns to the call: send_update_command sends
\* webio_update_flash=1
FlashSent(i) ==
  /\ updater.call[i] = "refresh"
  /\ updater' = [updater EXCEPT !.call[i] = "send", !.flashes = @ + 1]
  /\ UpdaterFrame

\* send_update_command returns: True on status 200, and the call shows its
\* notification; False on any other status, a timeout or an error, and
\* _handle_update_error clears the mark and cancels the monitoring task
FlashAnswered(i, success) ==
  /\ updater.call[i] = "send"
  /\ updater' =
       IF success
         THEN [updater EXCEPT !.call[i] = "notify"]
         ELSE [updater EXCEPT
                 !.call[i] = "error",
                 !._installing = FALSE,
                 !.monitor = CancelProgress(@, updater._progress_task)]
  /\ UpdaterFrame

\* the notification is out: the monitoring task is created and kept in
\* _progress_task, and the call returns
MonitorCreated(i) ==
  /\ updater.call[i] = "notify"
  /\ updater' = [updater EXCEPT
                   !.call[i] = "returned",
                   !._progress_task = i,
                   !.monitor[i] = [NoMonitor EXCEPT !.pc = "initial_sleep"]]
  /\ UpdaterFrame

\* the notifications of _handle_update_error are out: the call returns
ErrorNotified(i) ==
  /\ updater.call[i] = "error"
  /\ updater' = [updater EXCEPT !.call[i] = "returned"]
  /\ UpdaterFrame

\* the coordinator's data is updated, avalible_update read as flag (0 when
\* the key is missing), and _handle_coordinator_update runs: while
\* installing it creates a task for _check_update_completion
CoordinatorRefreshed(flag) ==
  /\ updater._installing => CheckTasks < MaxCheckTasks
  /\ updater' =
       [updater EXCEPT
          !.avalible_update = flag,
          !.checks["start"] = IF updater._installing THEN @ + 1 ELSE @]
  /\ UpdaterFrame

\* _handle_update_success up to its first await: the mark is cleared and
\* the monitoring task cancelled
SuccessBegun(u) ==
  [u EXCEPT !._installing = FALSE,
            !.monitor = CancelProgress(@, u._progress_task)]

\* a task created by _handle_coordinator_update runs
\* _check_update_completion: with the flag at 0 it enters
\* _handle_update_success, otherwise it ends
CheckRuns ==
  /\ updater.checks["start"] > 0
  /\ updater' =
       IF updater.avalible_update = 0
         THEN [SuccessBegun(updater) EXCEPT
                 !.checks["start"] = @ - 1,
                 !.checks["success_dismiss"] = @ + 1]
         ELSE [updater EXCEPT !.checks["start"] = @ - 1]
  /\ UpdaterFrame

\* the task's call to dismiss the progress notification is over: it creates
\* the success notification
CheckDismissed ==
  /\ updater.checks["success_dismiss"] > 0
  /\ updater' = [updater EXCEPT !.checks["success_dismiss"] = @ - 1,
                                 !.checks["success_show"] = @ + 1,
                                 !.shown = @ + 1]
  /\ UpdaterFrame

\* the call that creates the notification is over: the state is written
CheckShown ==
  /\ updater.checks["success_show"] > 0
  /\ updater' = [updater EXCEPT !.checks["success_show"] = @ - 1,
                                 !.written = @ + 1]
  /\ UpdaterFrame

\* a sleep of a monitoring task is over: it asks for a refresh
ProgressWakes(i) ==
  /\ updater.monitor[i].pc \in {"initial_sleep", "sleep"}
  /\ ~updater.monitor[i].must_cancel
  /\ updater' = [updater EXCEPT !.monitor[i].pc = "refresh"]
  /\ UpdaterFrame

\* async_request_refresh returns to the monitoring task, which runs
\* _check_update_completion: with the flag at 0 it enters
\* _handle_update_success, in which it cancels itself when it is the task
\* in _progress_task; otherwise it sleeps, or after the last check shows
\* the timeout notification
ProgressChecks(i) ==
  /\ updater.monitor[i].pc = "refresh"
  /\ ~updater.monitor[i].must_cancel
  /\ updater' =
       IF updater.avalible_update = 0
         THEN [SuccessBegun(updater) EXCEPT
                 !.monitor[i].pc = "success_dismiss"]
         ELSE IF updater.monitor[i].check_num < max_checks - 1
           THEN [updater EXCEPT !.monitor[i].pc = "sleep",
                                !.monitor[i].check_num = @ + 1]
           ELSE [updater EXCEPT !.monitor[i].pc = "timeout_notify"]
  /\ UpdaterFrame

\* a notification call of the monitoring task is over without the task
\* having been resumed with its cancellation: after the dismissal the
\* success notification is created, after that the state is written and
\* the task returns; after the timeout notification the task returns
ProgressNotified(i) ==
  /\ updater.monitor[i].pc \in
       {"success_dismiss", "success_show", "timeout_notify"}
  /\ updater' =
       IF updater.monitor[i].pc = "success_dismiss"
         THEN [updater EXCEPT !.monitor[i].pc = "success_show",
                              !.shown = @ + 1]
         ELSE IF updater.monitor[i].pc = "success_show"
           THEN [updater EXCEPT !.monitor[i].pc = "done",
                                !.monitor[i].must_cancel = FALSE,
                                !.written = @ + 1]
           ELSE [updater EXCEPT !.monitor[i].pc = "done",
                                !.monitor[i].must_cancel = FALSE]
  /\ UpdaterFrame

\* a monitoring task is resumed with its cancellation: CancelledError is
\* raised at the await it waits at and logged by _monitor_update_progress
ProgressCancelled(i) ==
  /\ ShouldCancel(updater.monitor[i].pc)
  /\ updater.monitor[i].must_cancel
  /\ updater' = [updater EXCEPT !.monitor[i].pc = "done",
                                 !.monitor[i].must_cancel = FALSE]
  /\ UpdaterFrame

\* ------------------------------------------------ climate.py coordinator

\* new_data of a 200 response with data for the zones zs: an entry for
\* every zone of DEFAULT_ZONES, empty for the zones without data
ClimateNewData(zs) ==
  [zone \in DEFAULT_ZONES |->
     IF zone \in zs THEN {"target_temp"} ELSE {}]

\* what the other variables of the model do in a step of climate.py
ClimateFrame ==
  /\ tick' = NoTick
  /\ last_return' = {}
  /\ UNCHANGED <<coordinator_vars, poll, inflight, tx, fail_run, last_poll,
                 entered_degraded, disc, refresh, reader, firmware,
                 thermostat, device, updater>>

\* async_discover_zones calls _check_available_zones, which sends its request
DiscoverStart(entry) ==
  /\ climate[entry].pc = "idle"
  /\ climate' = [climate EXCEPT ![entry].pc = "await_get"]
  /\ UNCHANGED try_counter
  /\ ClimateFrame

\* the response has status 200: try_counter is reset and the body awaited
Get200(entry) ==
  /\ climate[entry].pc = "await_get"
  /\ try_counter' = 0
  /\ climate' = [climate EXCEPT ![entry].pc = "await_json"]
  /\ ClimateFrame

\* the response has another status: new_data stays empty and is stored, no
\* zone is discovered, and async_discover_zones runs on to the end
GetOtherStatus(entry) ==
  /\ climate[entry].pc = "await_get"
  /\ climate' = [climate EXCEPT ![entry] =
       [pc |-> "idle", _available |-> TRUE, data |-> Empty,
        active_zones |-> {}]]
  /\ UNCHANGED try_counter
  /\ ClimateFrame

\* the body is read: a zone is discovered where it has a key, new_data is
\* stored, and async_discover_zones runs on to the end
JsonRead(entry, zs) ==
  /\ climate[entry].pc = "await_json"
  /\ climate' = [climate EXCEPT ![entry] =
       [pc |-> "idle", _available |-> TRUE, data |-> ClimateNewData(zs),
        active_zones |-> zs]]
  /\ UNCHANGED try_counter
  /\ ClimateFrame

\* the data an instance holds after its request raised with the counter at
\* count: past the limit the method returns before the assignment
DataAfterFailure(count, old_data) ==
  IF count > TryLimit THEN old_data ELSE Empty

\* the request or the reading of the body raises: try_counter goes up by
\* one; no zone is discovered, and async_discover_zones runs on to the end,
\* where it sets _available (set to False past the limit) to True
CheckRaises(entry) ==
  /\ climate[entry].pc \in {"await_get", "await_json"}
  /\ try_counter < MaxTryCounter
  /\ try_counter' = try_counter + 1
  /\ climate' = [climate EXCEPT ![entry] =
       [pc |-> "idle", _available |-> TRUE,
        data |-> DataAfterFailure(try_counter', climate[entry].data),
        active_zones |-> {}]]
  /\ ClimateFrame

\* ---------------------------------------------------------------- clock
Tick(d) ==
  /\ last_discovery' =
       Past(last_discovery, d, MaxPollElapsed, discovery_interval)
  /\ _cache_timestamps' =
       [k \in DOMAIN _cache_timestamps |->
          Past(_cache_timestamps[k], d, _cache_ttl, _cache_ttl)]
  /\ _last_commands' =
       [c \in DOMAIN _last_commands |->
          Past(_last_commands[c], d, _command_debounce, _command_debounce)]
  /\ poll' =
       IF poll.pc = "idle" THEN poll
       ELSE [poll EXCEPT
               !.current_time =
                 Past(@, d, MaxPollElapsed, discovery_interval),
               !.sent_at = Past(@, d, MaxPollElapsed, DiscoveryTimeout)]
  /\ inflight' =
       {[call EXCEPT !.current_time = Past(@, d, MaxElapsed, CommandTimeout)] :
          call \in inflight}
  /\ refresh' =
       {[task EXCEPT !.sent_at = Past(@, d, MaxPollElapsed, RefreshTimeout)] :
          task \in refresh}
  /\ tx' = [c \in AllCommands |->
              IF tx[c].state = "none" THEN tx[c]
              ELSE IF /\ tx[c].state # "pending"
                      /\ (now - tx[c].time) + d >= _command_debounce
                THEN NoTx
              ELSE [tx[c] EXCEPT
                      !.time = Past(@, d, _command_debounce, _command_debounce)]]
  /\ last_return' = {}
  /\ tick' = NoTick
  /\ UNCHANGED <<active_zones, _error_count, update_interval,
                 _confirmed_cache, data, last_update_success, last_exception,
                 fail_run, last_poll, platform_vars, entered_degraded, disc>>

\* ------------------------------------------------- _async_update_data
\* the selection with the interval's last instant counted as elapsed
SelectDiscovery_Inclusive(current_time, last) ==
  (current_time - last) >= discovery_interval

\* (current_time - self.last_discovery) > self.discovery_interval
SelectDiscovery(current_time, last) ==
  (current_time - last) > discovery_interval

\* a Discovery URL built from the active set, as the Regular one is
DiscoveryRequestZones_Active == active_zones

\* the zones named in the URL of _discovery_phase
DiscoveryRequestZones == DEFAULT_ZONES

\* a Regular URL built from the static zone list, as the Discovery one is
RegularRequestZones_All(active) == DEFAULT_ZONES

\* the zones named in the URL of _regular_update_phase
RegularRequestZones(active) == active

\* the threshold test with > for >=
ShouldRecover_Late(count) == count > _max_errors

\* if self._error_count >= self._max_errors
ShouldRecover(count) == count >= _max_errors

\* the comparison left out: every Discovery replaces the set and fires
ZonesDiffer_Always(new_active_zones, active) == TRUE

\* if new_active_zones != self.active_zones
ZonesDiffer(new_active_zones, active) == new_active_zones # active

\* the event left unfired by the tick that assigns the set
FiresZonesChanged_Never(phase) == FALSE

\* hass.bus.async_fire stands in the Discovery branch, in the if that
\* assigns the set, with no await between the two
FiresZonesChanged(phase) == phase = "discovery"

\* the stored set written by the fallback request of the Regular Phase too
WritesActiveZones_Fallback(phase) == phase \in {"discovery", "fallback"}

\* the assignment to self.active_zones stands in the Discovery branch of
\* _async_update_data alone
WritesActiveZones(phase) == phase = "discovery"

\* the time of the tick stored by every request that is answered well
LastDiscoveryAfter_AnyPhase(phase, current_time, last) == current_time

\* self.last_discovery = current_time follows the await of _discovery_phase
\* in the Discovery branch of _async_update_data, and stands nowhere else
LastDiscoveryAfter(phase, current_time, last) ==
  IF phase = "discovery" THEN current_time ELSE last

\* the phase a tick starting at current_time runs; "fallback" is the
\* Discovery request _regular_update_phase makes for an empty active set
SelectPhase(current_time, last, active) ==
  IF SelectDiscovery(current_time, last) THEN "discovery"
  ELSE IF active = {} THEN "fallback"
  ELSE "regular"

PhaseTimeout(phase) ==
  IF phase = "regular" THEN RegularTimeout ELSE DiscoveryTimeout

\* an answer arrives before the timeout; the timeout fires at it
AnswerPossible(answer, elapsed, timeout) ==
  IF answer = "timeout" THEN elapsed >= timeout ELSE elapsed < timeout

\* the answers of a poll request that end in the failure handler
PollFailureAnswers == {"http_error", "error", "bad_json", "list_body", "timeout"}

\* the kind of a poll answer: ok, unauthorized, or failed
AnswerKind(answer) ==
  IF answer \in {"ok", "unauthorized"} THEN answer ELSE "failed"

\* the failure counted twice
CountAfterFailure_Twice(count) == count + 2

\* self._error_count += 1
CountAfterFailure(count) == count + 1

\* the new set merged into the stored one: a missing zone is kept
ReplacedZones_Merged(new_active_zones, active) == active \cup new_active_zones

\* self.active_zones = new_active_zones
ReplacedZones(new_active_zones, active) == new_active_zones

\* the counter left as the failure handler set it
CountAfterSuccess_Kept(count) == count

\* self._error_count = 0 at the end of _process_data_with_cache
CountAfterSuccess(count) == 0

\* the interval left as the failure handler set it
IntervalAfterSuccess_Kept(interval) == interval

\* if self.update_interval != REGULAR_UPDATE_INTERVAL: set it back
IntervalAfterSuccess(interval) ==
  IF interval # REGULAR_UPDATE_INTERVAL
    THEN REGULAR_UPDATE_INTERVAL
    ELSE interval

\* history of the tick that ends now: answer is the answer to its last
\* request, raw_data and zones_to_process what was processed (if anything)
FinishTick(answer, recovery, event, failed, raw_data, zones_to_process) ==
  /\ tick' = [phase |-> poll.phase, last_answer |-> AnswerKind(answer),
              recovery |-> recovery,
              request_zones |-> poll.request_zones,
              zones_to_process |-> zones_to_process,
              raw_data |-> raw_data,
              cache |-> _confirmed_cache,
              timestamps |-> _cache_timestamps,
              event |-> event,
              repeated |-> /\ poll.phase = "discovery"
                           /\ ~recovery
                           /\ answer = "ok"
                           /\ disc.reports = <<data'.active_zones>>,
              between |-> disc.since,
              before_count |-> _error_count,
              before_interval |-> update_interval,
              answer |-> answer,
              events |-> IF event THEN <<active_zones'>> ELSE << >>,
              active_at_start |-> poll.active_at_start,
              count_at_start |-> poll.count_at_start,
              interval_at_start |-> poll.interval_at_start,
              shown |-> poll.shown]
  /\ fail_run' =
       IF failed
         THEN IF fail_run >= 0 THEN fail_run + 1 ELSE fail_run
         ELSE IF _error_count' = 0 /\ update_interval' = REGULAR_UPDATE_INTERVAL
                THEN 0 ELSE -1
  /\ entered_degraded' =
       /\ failed
       /\ poll.interval_at_start # ERROR_RETRY_DELAY
       /\ update_interval' = ERROR_RETRY_DELAY
  /\ poll' = IdlePoll
  /\ last_return' = {}
  /\ last_poll' =
       IF answer = "ok"
         THEN [outcome |-> "ok",
               zones |-> ZonesWithData(raw_data, zones_to_process)]
         ELSE [last_poll EXCEPT !.outcome = "failed"]
  /\ UNCHANGED platform_vars

\* a tick starts: the phase is selected and its request goes out
PollStart ==
  /\ poll.pc = "idle"
  /\ LET phase == SelectPhase(now, last_discovery, active_zones)
     IN poll' = [pc |-> "await_phase", phase |-> phase, current_time |-> now,
                 sent_at |-> now,
                 request_zones |->
                   IF phase = "regular"
                     THEN RegularRequestZones(active_zones)
                     ELSE DiscoveryRequestZones,
                 active_at_start |-> active_zones,
                 interval_at_start |-> update_interval,
                 first_after_degraded |-> entered_degraded,
                 count_at_start |-> _error_count,
                 shown |-> {}]
  /\ entered_degraded' = FALSE
  /\ last_return' = {}
  /\ tick' = NoTick
  /\ UNCHANGED <<coordinator_vars, inflight, tx, fail_run, last_poll, platform_vars, disc>>
  /\ UNCHANGED refresh

\* the request of the selected phase is answered 200 with a JSON object
PhaseOk(zs, v) ==
  /\ poll.pc = "await_phase"
  /\ AnswerPossible("ok", now - poll.sent_at, PhaseTimeout(poll.phase))
  /\ LET raw_data == RawData(zs, v)
         zones_to_process ==
           IF poll.phase = "regular" THEN active_zones ELSE DEFAULT_ZONES
         swept == SweptKeys(_confirmed_cache, _cache_timestamps, now)
         processed == ProcessedData(raw_data, zones_to_process,
                                    _confirmed_cache, _cache_timestamps, now)
         new_active_zones == DOMAIN processed.zones
         changed == ZonesDiffer(new_active_zones, active_zones)
         event == FiresZonesChanged(poll.phase) /\ changed
     IN /\ _confirmed_cache' =
             Restrict(_confirmed_cache, DOMAIN _confirmed_cache \ swept)
        /\ _cache_timestamps' =
             Restrict(_cache_timestamps, DOMAIN _cache_timestamps \ swept)
        /\ _error_count' = CountAfterSuccess(_error_count)
        /\ update_interval' = IntervalAfterSuccess(update_interval)
        /\ last_discovery' =
             LastDiscoveryAfter(poll.phase, poll.current_time, last_discovery)
        /\ active_zones' =
             IF WritesActiveZones(poll.phase) /\ changed
               THEN ReplacedZones(new_active_zones, active_zones)
               ELSE active_zones
        /\ data' = processed
        /\ last_update_success' = TRUE
        /\ last_exception' = None
        /\ disc' =
             IF poll.phase = "discovery"
               THEN [reports |-> <<new_active_zones>>, since |-> FALSE,
                     fired |-> IF event THEN <<active_zones'>>
                               ELSE disc.fired]
               ELSE [disc EXCEPT !.since = @ \/ event,
                                 !.fired = IF event THEN <<active_zones'>>
                                           ELSE @]
        /\ FinishTick("ok", FALSE, event, FALSE, raw_data, zones_to_process)
  /\ UNCHANGED <<_last_commands, inflight, tx>>
  /\ UNCHANGED refresh

\* the request of the selected phase is answered 401: ConfigEntryAuthFailed
\* passes through the handler untouched
PhaseUnauthorized ==
  /\ poll.pc = "await_phase"
  /\ AnswerPossible("unauthorized", now - poll.sent_at, PhaseTimeout(poll.phase))
  /\ last_update_success' = FALSE
  /\ last_exception' = "ConfigEntryAuthFailed"
  /\ UNCHANGED <<active_zones, last_discovery, _error_count,
                 update_interval, _confirmed_cache, _cache_timestamps,
                 _last_commands, data, inflight, tx, disc>>
  /\ FinishTick("unauthorized", FALSE, FALSE, FALSE, Empty, {})
  /\ UNCHANGED refresh

\* a sweep that clears the whole cache when a list body is rejected
SweepBeforeRaise_Whole(answer) ==
  IF answer = "list_body" THEN DOMAIN _confirmed_cache ELSE {}

\* a body that is a list reaches _process_data_with_cache, whose sweep runs
\* before raw_data.items() raises
SweepBeforeRaise(answer) ==
  IF answer = "list_body"
    THEN SweptKeys(_confirmed_cache, _cache_timestamps, now)
    ELSE {}

\* the request of the selected phase fails: except Exception
PhaseFails(answer) ==
  /\ poll.pc = "await_phase"
  /\ answer \in PollFailureAnswers
  /\ AnswerPossible(answer, now - poll.sent_at, PhaseTimeout(poll.phase))
  /\ _error_count < MaxErrorCount
  /\ _error_count' = CountAfterFailure(_error_count)
  /\ _confirmed_cache' =
       Restrict(_confirmed_cache, DOMAIN _confirmed_cache \ SweepBeforeRaise(answer))
  /\ _cache_timestamps' =
       Restrict(_cache_timestamps, DOMAIN _cache_timestamps \ SweepBeforeRaise(answer))
  /\ IF ShouldRecover(CountAfterFailure(_error_count))
       THEN /\ update_interval' = ERROR_RETRY_DELAY
            /\ poll' = [poll EXCEPT !.pc = "await_recovery", !.sent_at = now,
                                    !.request_zones = DiscoveryRequestZones]
            /\ last_return' = {}
            /\ tick' = NoTick
            /\ UNCHANGED <<last_update_success, last_exception, fail_run, last_poll, platform_vars,
                           entered_degraded>>
       ELSE /\ update_interval' = update_interval
            /\ last_update_success' = FALSE
            /\ last_exception' = "UpdateFailed"
            /\ FinishTick(answer, FALSE, FALSE, TRUE, Empty, {})
  /\ UNCHANGED <<active_zones, last_discovery, _last_commands, data,
                 inflight, tx, disc>>
  /\ UNCHANGED refresh

\* the recovery Discovery of the handler is answered 200 with a JSON object:
\* its data is what the tick returns
RecoveryOk(zs, v) ==
  /\ poll.pc = "await_recovery"
  /\ AnswerPossible("ok", now - poll.sent_at, DiscoveryTimeout)
  /\ LET swept == SweptKeys(_confirmed_cache, _cache_timestamps, now)
         processed == ProcessedData(RawData(zs, v), DEFAULT_ZONES,
                                    _confirmed_cache, _cache_timestamps, now)
     IN /\ _confirmed_cache' =
             Restrict(_confirmed_cache, DOMAIN _confirmed_cache \ swept)
        /\ _cache_timestamps' =
             Restrict(_cache_timestamps, DOMAIN _cache_timestamps \ swept)
        /\ data' = processed
  /\ _error_count' = CountAfterSuccess(_error_count)
  /\ update_interval' = IntervalAfterSuccess(update_interval)
  /\ last_update_success' = TRUE
  /\ last_exception' = None
  /\ FinishTick("ok", TRUE, FALSE, FALSE, RawData(zs, v), DEFAULT_ZONES)
  /\ UNCHANGED <<active_zones, last_discovery, _last_commands, inflight,
                 tx, disc>>
  /\ UNCHANGED refresh

\* the recovery Discovery raises (401 included): except Exception: pass,
\* then UpdateFailed
RecoveryFails(answer) ==
  /\ poll.pc = "await_recovery"
  /\ answer \in PollFailureAnswers \cup {"unauthorized"}
  /\ AnswerPossible(answer, now - poll.sent_at, DiscoveryTimeout)
  /\ _confirmed_cache' =
       Restrict(_confirmed_cache, DOMAIN _confirmed_cache \ SweepBeforeRaise(answer))
  /\ _cache_timestamps' =
       Restrict(_cache_timestamps, DOMAIN _cache_timestamps \ SweepBeforeRaise(answer))
  /\ last_update_success' = FALSE
  /\ last_exception' = "UpdateFailed"
  /\ UNCHANGED <<active_zones, last_discovery, _error_count,
                 update_interval, _last_commands, data, inflight, tx, disc>>
  /\ FinishTick(answer, TRUE, FALSE, TRUE, Empty, {})
  /\ UNCHANGED refresh

\* -------------------------------------------------------- send_command
\* the debounce test with the boundary inside the window
IsDebounced_Inclusive(last_commands, command, current_time) ==
  /\ command \in DOMAIN last_commands
  /\ current_time - last_commands[command] <= _command_debounce

\* the debounce test with the comparison turned round
IsDebounced_Inverted(last_commands, command, current_time) ==
  /\ command \in DOMAIN last_commands
  /\ current_time - last_commands[command] > _command_debounce

\* command in self._last_commands and time_since_last < self._command_debounce
IsDebounced(last_commands, command, current_time) ==
  /\ command \in DOMAIN last_commands
  /\ current_time - last_commands[command] < _command_debounce

\* result_data.get("status") in ["ok", "ок"]
StatusAccepted(status) == status \in {"ok", "ok_cyrillic"}

\* what send_command returns for the answer its request got
CommandResult(answer) == StatusAccepted(answer)

\* the value the debounce branch returns
DebouncedResult == TRUE

\* the values cached without a look at the status
ConfirmedBody_Unchecked(command, answer) == EchoBody(command)

\* what _apply_confirmed_values is called with: the body of an answer whose
\* status is accepted, and nothing for any other answer
ConfirmedBody(command, answer) ==
  IF StatusAccepted(answer) THEN EchoBody(command) ELSE Empty

\* self.async_update_listeners() sits inside "if self.data:"
NotifiesListeners(snapshot) == snapshot.present

\* _apply_confirmed_values: every key of the body but "status"
\* the values written only for the keys that have no entry yet
AppliedCache_KeepExisting(cache, body) ==
  [k \in DOMAIN cache \cup DOMAIN body |->
     IF k \in DOMAIN cache THEN cache[k] ELSE body[k]]

AppliedCache(cache, body) ==
  [k \in DOMAIN cache \cup DOMAIN body |->
     IF k \in DOMAIN body THEN body[k] ELSE cache[k]]

\* the timestamps written with the time of the response in place of the
\* time captured at the start of the call
AppliedTimestamps_Now(timestamps, body, timestamp) ==
  [k \in DOMAIN timestamps \cup DOMAIN body |->
     IF k \in DOMAIN body THEN now ELSE timestamps[k]]

\* the stamp written only for the keys that have one already
AppliedTimestamps_ExistingOnly(timestamps, body, timestamp) ==
  [k \in DOMAIN timestamps |->
     IF k \in DOMAIN body THEN timestamp ELSE timestamps[k]]

AppliedTimestamps(timestamps, body, timestamp) ==
  [k \in DOMAIN timestamps \cup DOMAIN body |->
     IF k \in DOMAIN body THEN timestamp ELSE timestamps[k]]

\* the answers of a command request that make send_command return False
CommandFailureAnswers ==
  {"rejected", "unauthorized", "http_error", "error", "bad_json", "list_body",
   "timeout"}

\* history: was command transmitted less than the debounce window ago
InWindow(command) ==
  /\ tx[command].state # "none"
  /\ now - tx[command].time < _command_debounce

\* the debounce branch: no request, return True
SendCommandDebounced(command) ==
  /\ IsDebounced(_last_commands, command, now)
  /\ tx' = IF InWindow(command)
             THEN [tx EXCEPT ![command].suppressed =
                     IF DebouncedResult THEN "true" ELSE "false"]
             ELSE tx
  /\ last_return' = {[command |-> command, sent |-> FALSE, late |-> FALSE,
                      answer |-> "none", result |-> DebouncedResult,
                      raw |-> "none", notified |-> FALSE, started |-> now,
                      overwrote |-> FALSE]}
  /\ tick' = NoTick
  /\ UNCHANGED <<coordinator_vars, poll, inflight, fail_run, last_poll, platform_vars,
                 entered_degraded, disc>>
  /\ UNCHANGED refresh

\* the command is recorded and its request goes out: up to the await
Transmit(command, limit) ==
  /\ ~IsDebounced(_last_commands, command, now)
  /\ Cardinality(inflight) < limit
  /\ _last_commands' = Put(_last_commands, command, now)
  /\ inflight' =
       {[call EXCEPT !.tracked =
           @ /\ (call.command # command \/ InWindow(command))] :
          call \in inflight}
       \cup {[command |-> command, current_time |-> now, tracked |-> TRUE]}
  /\ tx' = IF InWindow(command)
             THEN [tx EXCEPT ![command].requests = @ + 1]
             ELSE [tx EXCEPT ![command] =
                     [time |-> now, requests |-> 1, state |-> "pending",
                      suppressed |-> "none"]]
  /\ last_return' = {}
  /\ tick' = NoTick
  /\ UNCHANGED <<active_zones, last_discovery, _error_count,
                 update_interval, _confirmed_cache, _cache_timestamps, data,
                 last_update_success, last_exception, poll,
                 fail_run, last_poll, platform_vars, entered_degraded, disc>>
  /\ UNCHANGED refresh

SendCommandTransmit(command) == Transmit(command, MaxInflight)

\* the same where two callers send at the same time
SendRivalCommand(command) == Transmit(command, MaxRivals)

\* the kind of a failed command answer: unauthorized, transport, or other
CommandAnswerKind(answer) ==
  IF answer = "unauthorized" THEN answer
  ELSE IF answer \in {"error", "timeout"} THEN "transport"
  ELSE "other"

\* history of the transmission that call belongs to, once it has returned
Answered(call, result) ==
  IF call.tracked /\ tx[call.command].state = "pending"
    THEN [tx EXCEPT ![call.command].state =
            IF result THEN "true" ELSE "false"]
    ELSE tx

\* the device answers 200 with status ok: cache, refresh, return True
CommandOk(call, status) ==
  /\ call \in inflight
  /\ StatusAccepted(status)
  /\ AnswerPossible(status, now - call.current_time, CommandTimeout)
  /\ inflight' = inflight \ {call}
  /\ _confirmed_cache' =
       AppliedCache(_confirmed_cache, ConfirmedBody(call.command, status))
  /\ _cache_timestamps' =
       AppliedTimestamps(_cache_timestamps,
                         ConfirmedBody(call.command, status),
                         call.current_time)
  /\ data' = ImmediateUpdate(data, _confirmed_cache', _cache_timestamps', now)
  /\ poll' =
       IF poll.pc = "idle" THEN poll
       ELSE [poll EXCEPT
               !.shown = @ \cup
                 {K \in DOMAIN ConfirmedBody(call.command, status) :
                    FacadeRead(K)' =
                      {ConfirmedBody(call.command, status)[K]}}]
  /\ tx' = Answered(call, CommandResult(status))
  /\ last_return' = {[command |-> call.command, sent |-> TRUE,
                      late |-> now - call.current_time >= _cache_ttl,
                      answer |-> "ok", result |-> CommandResult(status),
                      raw |-> status, notified |-> NotifiesListeners(data),
                      started |-> call.current_time,
                      overwrote |->
                        DOMAIN EchoBody(call.command)
                          \cap DOMAIN _confirmed_cache # {}]}
  /\ tick' = NoTick
  /\ UNCHANGED <<active_zones, last_discovery, _error_count,
                 update_interval, _last_commands, last_update_success,
                 last_exception, fail_run, last_poll, platform_vars, entered_degraded,
                 disc>>
  /\ UNCHANGED refresh

\* 401, another status, a rejection, a transport error, a timeout, a body
\* that is no JSON object: return False
CommandFails(call, answer) ==
  /\ call \in inflight
  /\ answer \in CommandFailureAnswers
  /\ AnswerPossible(answer, now - call.current_time, CommandTimeout)
  /\ inflight' = inflight \ {call}
  /\ tx' = Answered(call, CommandResult(answer))
  /\ _confirmed_cache' =
       AppliedCache(_confirmed_cache, ConfirmedBody(call.command, answer))
  /\ _cache_timestamps' =
       AppliedTimestamps(_cache_timestamps,
                         ConfirmedBody(call.command, answer),
                         call.current_time)
  /\ last_return' = {[command |-> call.command, sent |-> TRUE, late |-> FALSE,
                      answer |-> CommandAnswerKind(answer),
                      result |-> CommandResult(answer),
                      raw |-> answer, notified |-> FALSE,
                      started |-> call.current_time, overwrote |-> FALSE]}
  /\ tick' = NoTick
  /\ UNCHANGED <<active_zones, last_discovery, _error_count, update_interval,
                 _last_commands, data, last_update_success, last_exception,
                 poll, fail_run, last_poll, platform_vars, entered_degraded, disc>>
  /\ UNCHANGED refresh

\* ------------------------------------------------ create_common_freeze
\* self._confirmed_cache[param] = value, stamped with time.time()
create_common_freeze(param, value) ==
  /\ _confirmed_cache' = Put(_confirmed_cache, param, value)
  /\ _cache_timestamps' = Put(_cache_timestamps, param, now)
  /\ last_return' = {}
  /\ tick' = NoTick
  /\ UNCHANGED <<active_zones, last_discovery, _error_count, update_interval,
                 _last_commands, data, last_update_success, last_exception,
                 poll, inflight, tx, fail_run, last_poll, platform_vars, entered_degraded, disc,
                 refresh>>

\* ------------------------------------------ _delayed_refresh_zone_data
important_params ==
  {"target_temp", "power_state", "away_mode", "nightmode", "eco_mode",
   "temperature"}

\* every zone key of fresh_data written, whatever its zone and parameter
RefreshedKeys_Unfiltered(fresh_data, zones) ==
  {key \in DOMAIN fresh_data : Len(key) = 2}

\* the keys of fresh_data the task writes into the cache
RefreshedKeys(fresh_data, zones) ==
  {key \in DOMAIN fresh_data :
     /\ \E zone \in zones : StartsWithZone(key, zone)
     /\ StripZone(key) \in important_params}

\* the sleep is over and the request for the zones goes out
DelayedRefreshRequest(zones) ==
  /\ Cardinality(refresh) < MaxRefresh
  /\ refresh' = refresh \cup {[zones |-> zones, sent_at |-> now]}
  /\ last_return' = {}
  /\ tick' = NoTick
  /\ UNCHANGED <<coordinator_vars, poll, inflight, tx, fail_run, last_poll, platform_vars,
                 entered_degraded, disc>>

\* 200 with a JSON object: the important parameters of the zones go into
\* the cache, stamped with the time of the answer; if any did, the refresh
\* without network follows
RefreshOk(task, zs, v, seen) ==
  /\ task \in refresh
  /\ AnswerPossible("ok", now - task.sent_at, RefreshTimeout)
  /\ refresh' = refresh \ {task}
  /\ LET fresh_data == RawData(zs, v)
         body == Restrict(fresh_data, RefreshedKeys(fresh_data, task.zones))
     IN /\ _confirmed_cache' = AppliedCache(_confirmed_cache, body)
        /\ _cache_timestamps' = AppliedTimestamps(_cache_timestamps, body, now)
        /\ data' = IF DOMAIN body # {}
                     THEN ImmediateUpdate(data, _confirmed_cache',
                                          _cache_timestamps', now)
                     ELSE data
  /\ last_return' = {}
  /\ tick' = seen
  /\ UNCHANGED <<active_zones, last_discovery, _error_count, update_interval,
                 _last_commands, last_update_success, last_exception,
                 poll, inflight, tx, fail_run, last_poll, platform_vars, entered_degraded, disc>>

DelayedRefreshOk(task, zs, v) == RefreshOk(task, zs, v, NoTick)

\* the record of a delayed refresh that has just ended
RefreshSeen(task, answer, fresh_data) ==
  [NoTick EXCEPT !.phase = "refresh", !.answer = answer,
                 !.request_zones = task.zones, !.raw_data = fresh_data]

\* the same step, with the record of it kept for one step
ObservedRefreshOk(task, zs, v) ==
  RefreshOk(task, zs, v, RefreshSeen(task, "ok", RawData(zs, v)))

\* the answers the task only logs: another status (401 included), a
\* transport error, a body that is no JSON object, the timeout, and the
\* cancellation of the task while it waits
RefreshFailureAnswers ==
  {"unauthorized", "http_error", "error", "bad_json", "list_body", "timeout",
   "cancelled"}

RefreshFails(task, answer, seen) ==
  /\ task \in refresh
  /\ answer \in RefreshFailureAnswers
  /\ AnswerPossible(answer, now - task.sent_at, RefreshTimeout)
  /\ refresh' = refresh \ {task}
  /\ last_return' = {}
  /\ tick' = seen
  /\ UNCHANGED <<coordinator_vars, poll, inflight, tx, fail_run, last_poll, platform_vars,
                 entered_degraded, disc>>

DelayedRefreshFails(task, answer) == RefreshFails(task, answer, NoTick)

\* the same step, with the record of it kept for one step
ObservedRefreshFails(task, answer) ==
  RefreshFails(task, answer, RefreshSeen(task, answer, Empty))

\* ----------------------------------------------------------------- next
Next ==
  \/ \E d \in TimeSteps : Tick(d)
  \/ PollStart
  \/ \E zs \in DeviceZoneSets, v \in PolledValues : PhaseOk(zs, v)
  \/ PhaseUnauthorized
  \/ \E answer \in PollFailureAnswers : PhaseFails(answer)
  \/ \E zs \in DeviceZoneSets, v \in PolledValues : RecoveryOk(zs, v)
  \/ \E answer \in PollFailureAnswers \cup {"unauthorized"} :
       RecoveryFails(answer)
  \/ \E command \in Commands : SendCommandDebounced(command)
  \/ \E command \in Commands : SendCommandTransmit(command)
  \/ \E call \in inflight, status \in {"ok", "ok_cyrillic"} :
       CommandOk(call, status)
  \/ \E call \in inflight, answer \in CommandFailureAnswers :
       CommandFails(call, answer)
  \/ \E param \in FreezeParams, value \in FreezeValues :
       create_common_freeze(param, value)
  \/ \E zones \in RefreshZoneSets : DelayedRefreshRequest(zones)
  \/ \E task \in refresh, zs \in DeviceZoneSets, v \in PolledValues :
       DelayedRefreshOk(task, zs, v)
  \/ \E task \in refresh, answer \in RefreshFailureAnswers :
       DelayedRefreshFails(task, answer)

Spec == Init /\ [][Next]_vars

\* the poll scheduler alone: send_command leaves every variable the
\* scheduler reads unchanged
NextSched ==
  \/ \E d \in TimeSteps : Tick(d)
  \/ PollStart
  \/ \E zs \in SchedZoneSets, v \in PolledValues : PhaseOk(zs, v)
  \/ PhaseUnauthorized
  \/ \E answer \in PollFailureAnswers : PhaseFails(answer)
  \/ \E zs \in SchedZoneSets, v \in PolledValues : RecoveryOk(zs, v)
  \/ \E answer \in PollFailureAnswers \cup {"unauthorized"} :
       RecoveryFails(answer)

SpecSched == Init /\ [][NextSched]_vars

\* commands racing with polls that succeed
NextCmd ==
  \/ \E d \in TimeSteps : Tick(d)
  \/ PollStart
  \/ \E zs \in DeviceZoneSets, v \in PolledValues : PhaseOk(zs, v)
  \/ \E command \in Commands : SendCommandDebounced(command)
  \/ \E command \in Commands : SendCommandTransmit(command)
  \/ \E call \in inflight, status \in {"ok", "ok_cyrillic"} :
       CommandOk(call, status)
  \/ \E call \in inflight, answer \in CommandFailureAnswers :
       CommandFails(call, answer)

SpecCmd == Init /\ [][NextCmd]_vars

\* the scheduler with its failures and send_command together, the clock in
\* steps of one TTL
NextPollCmd ==
  \/ \E d \in CoarseSteps : Tick(d)
  \/ PollStart
  \/ \E zs \in DeviceZoneSets, v \in PolledValues : PhaseOk(zs, v)
  \/ PhaseUnauthorized
  \/ \E answer \in PollFailureAnswers : PhaseFails(answer)
  \/ \E zs \in DeviceZoneSets, v \in PolledValues : RecoveryOk(zs, v)
  \/ \E answer \in PollFailureAnswers \cup {"unauthorized"} :
       RecoveryFails(answer)
  \/ \E command \in Commands : SendCommandDebounced(command)
  \/ \E command \in Commands : SendCommandTransmit(command)
  \/ \E call \in inflight, status \in {"ok", "ok_cyrillic"} :
       CommandOk(call, status)
  \/ \E call \in inflight, answer \in CommandFailureAnswers :
       CommandFails(call, answer)

SpecPollCmd == Init /\ [][NextPollCmd]_vars

\* the bodies that are no JSON object: response.json() raises, or returns
\* a list
MalformedAnswers == {"bad_json", "list_body"}

\* the scheduler and the dispatcher against a device whose every answer is
\* a success or a body that is no JSON object
NextMalformed ==
  \/ \E d \in CoarseSteps : Tick(d)
  \/ PollStart
  \/ \E zs \in DeviceZoneSets, v \in PolledValues : PhaseOk(zs, v)
  \/ \E answer \in MalformedAnswers : PhaseFails(answer)
  \/ \E zs \in DeviceZoneSets, v \in PolledValues : RecoveryOk(zs, v)
  \/ \E answer \in MalformedAnswers : RecoveryFails(answer)
  \/ \E command \in Commands : SendCommandTransmit(command)
  \/ \E call \in inflight, status \in {"ok", "ok_cyrillic"} :
       CommandOk(call, status)
  \/ \E call \in inflight, answer \in MalformedAnswers :
       CommandFails(call, answer)

SpecMalformed == Init /\ [][NextMalformed]_vars

\* two of the failures of a command, one answered by the device and one
\* not: every failure leaves the coordinator as it was (CommandFails)
OpsCommandFailures == {"rejected", "timeout"}

\* polls that succeed, send_command and the delayed refresh together, the
\* clock in steps of one TTL
NextOps ==
  \/ \E d \in CoarseSteps : Tick(d)
  \/ PollStart
  \/ \E zs \in DeviceZoneSets, v \in PolledValues : PhaseOk(zs, v)
  \/ \E command \in Commands : SendCommandDebounced(command)
  \/ \E command \in Commands : SendCommandTransmit(command)
  \/ \E call \in inflight, status \in {"ok", "ok_cyrillic"} :
       CommandOk(call, status)
  \/ \E call \in inflight, answer \in OpsCommandFailures :
       CommandFails(call, answer)
  \/ \E zones \in RefreshZoneSets : DelayedRefreshRequest(zones)
  \/ \E task \in refresh, zs \in DeviceZoneSets, v \in PolledValues :
       DelayedRefreshOk(task, zs, v)
  \/ \E task \in refresh, answer \in RefreshFailureAnswers :
       DelayedRefreshFails(task, answer)

SpecOps == Init /\ [][NextOps]_vars

\* every writer of the cache: the same with create_common_freeze
NextCache ==
  \/ NextOps
  \/ \E param \in FreezeParams, value \in FreezeValues :
       create_common_freeze(param, value)

SpecCache == Init /\ [][NextCache]_vars

\* every writer of the two cache maps: the sweep of the ticks, confirmed
\* commands, create_common_freeze and the delayed refresh
NextAligned ==
  \/ \E d \in CoarseSteps : Tick(d)
  \/ PollStart
  \/ \E zs \in DeviceZoneSets, v \in PolledValues : PhaseOk(zs, v)
  \/ \E command \in Commands : SendCommandTransmit(command)
  \/ \E call \in inflight, status \in {"ok", "ok_cyrillic"} :
       CommandOk(call, status)
  \/ \E param \in FreezeParams, value \in FreezeValues :
       create_common_freeze(param, value)
  \/ \E zones \in RefreshZoneSets : DelayedRefreshRequest(zones)
  \/ \E task \in refresh, zs \in DeviceZoneSets, v \in PolledValues :
       DelayedRefreshOk(task, zs, v)

SpecAligned == Init /\ [][NextAligned]_vars

\* the consumers' view: every way a tick can end, and commands that are
\* transmitted, answered well or not
NextAvail ==
  \/ \E d \in CoarseSteps : Tick(d)
  \/ PollStart
  \/ \E zs \in DeviceZoneSets, v \in PolledValues : PhaseOk(zs, v)
  \/ PhaseUnauthorized
  \/ \E answer \in PollFailureAnswers : PhaseFails(answer)
  \/ \E zs \in DeviceZoneSets, v \in PolledValues : RecoveryOk(zs, v)
  \/ \E answer \in PollFailureAnswers \cup {"unauthorized"} :
       RecoveryFails(answer)
  \/ \E command \in Commands : SendCommandTransmit(command)
  \/ \E call \in inflight, status \in {"ok", "ok_cyrillic"} :
       CommandOk(call, status)
  \/ \E call \in inflight, answer \in OpsCommandFailures :
       CommandFails(call, answer)

SpecAvail == Init /\ [][NextAvail]_vars

\* two callers whose commands set the same key, each answered in its time
NextRival ==
  \/ \E d \in TimeSteps : Tick(d)
  \/ \E command \in RivalCommands : SendRivalCommand(command)
  \/ \E call \in inflight, status \in {"ok", "ok_cyrillic"} :
       CommandOk(call, status)
  \/ \E call \in inflight, answer \in OpsCommandFailures :
       CommandFails(call, answer)

SpecRival == Init /\ [][NextRival]_vars

\* the delayed refresh between the ticks of a device that answers
NextRefresh ==
  \/ \E d \in CoarseSteps : Tick(d)
  \/ PollStart
  \/ \E zs \in DeviceZoneSets, v \in PolledValues : PhaseOk(zs, v)
  \/ \E zones \in RefreshZoneSets : DelayedRefreshRequest(zones)
  \/ \E task \in refresh, zs \in RefreshResponseZoneSets, v \in FreezeValues :
       ObservedRefreshOk(task, zs, v)
  \/ \E task \in refresh, answer \in RefreshFailureAnswers :
       ObservedRefreshFails(task, answer)

SpecRefresh == Init /\ [][NextRefresh]_vars

\* consumers reading between the ticks of a device that answers
NextRead ==
  \/ \E d \in CoarseSteps : Tick(d)
  \/ PollStart
  \/ \E zs \in DeviceZoneSets, v \in PolledValues : PhaseOk(zs, v)
  \/ \E accessor \in Accessors, zone \in ReadZones :
       ReadAccessor(accessor, zone)
  \/ \E zone \in ReadZones : MutateReturned(zone)

SpecRead == Init /\ [][NextRead]_vars

\* the zone sets a device settles on
StableZoneSets == {{}, {"a1"}, {"a1", "b2"}}

\* between two ticks the device comes to answer every request well, with
\* data for the zones Z
Stabilise(Z) ==
  /\ ~device.stable
  /\ poll.pc = "idle"
  /\ device' = [stable |-> TRUE, zones |-> Z]
  /\ tick' = NoTick
  /\ last_return' = {}
  /\ UNCHANGED <<coordinator_vars, poll, inflight, tx, fail_run, last_poll,
                 entered_degraded, disc, refresh, try_counter, climate,
                 reader, firmware, thermostat, updater>>

\* time passes; the requests of a device that answers are not left waiting
\* until their timeout
ConvergeTick(d) ==
  /\ (device.stable /\ poll.pc # "idle") =>
       (now - poll.sent_at) + d < PhaseTimeout(poll.phase)
  /\ Tick(d)

\* the answer to the request of the selected phase: that of the device once
\* it has settled
ConvergePhaseOk(zs, v) ==
  /\ device.stable => zs = device.zones
  /\ PhaseOk(zs, v)

\* until the device settles its answers may be failures, and the recovery
\* Discovery of a failing tick answered in any way
ConvergePhaseFails(answer) ==
  /\ ~device.stable
  /\ PhaseFails(answer)

ConvergeRecoveryOk(zs, v) ==
  /\ ~device.stable
  /\ RecoveryOk(zs, v)

ConvergeRecoveryFails(answer) ==
  /\ ~device.stable
  /\ RecoveryFails(answer)

\* the scheduler from its construction, with a device that fails and
\* changes its answers until it settles
NextConverge ==
  \/ \E d \in TimeSteps : ConvergeTick(d)
  \/ PollStart
  \/ \E zs \in StableZoneSets, v \in PolledValues : ConvergePhaseOk(zs, v)
  \/ \E answer \in PollFailureAnswers : ConvergePhaseFails(answer)
  \/ \E zs \in StableZoneSets, v \in PolledValues : ConvergeRecoveryOk(zs, v)
  \/ \E answer \in PollFailureAnswers : ConvergeRecoveryFails(answer)
  \/ \E Z \in StableZoneSets : Stabilise(Z)

\* the base class starts a tick every update_interval, every request is
\* answered or times out, and the ticks being an interval apart, the
\* discovery interval passes again and again
SpecConverge ==
  /\ Init
  /\ [][NextConverge]_vars
  /\ WF_vars(PollStart)
  /\ WF_vars(\E zs \in StableZoneSets, v \in PolledValues :
               ConvergePhaseOk(zs, v))
  /\ SF_vars(ConvergeTick(discovery_interval))

\* the climate entity of a zone: discoveries, presets asked for, and the
\* device's answers
NextPreset ==
  \/ \E flags \in FlagMaps : ThermostatPolled(flags)
  \/ ThermostatPollFailed
  \/ \E preset \in RequestedPresets : async_set_preset_mode(preset)
  \/ PresetConfirmed
  \/ PresetFails

SpecPreset == Init /\ [][NextPreset]_vars

\* the firmware update entity under calls of async_install, updates of the
\* coordinator's data, and the tasks both create
NextInstall ==
  \/ \E i \in CallIds : async_install(i)
  \/ \E i \in CallIds : FlashSent(i)
  \/ \E i \in CallIds, success \in BOOLEAN : FlashAnswered(i, success)
  \/ \E i \in CallIds : MonitorCreated(i)
  \/ \E i \in CallIds : ErrorNotified(i)
  \/ \E flag \in UpdateFlags : CoordinatorRefreshed(flag)
  \/ CheckRuns
  \/ CheckDismissed
  \/ CheckShown
  \/ \E i \in CallIds : ProgressWakes(i)
  \/ \E i \in CallIds : ProgressChecks(i)
  \/ \E i \in CallIds : ProgressNotified(i)
  \/ \E i \in CallIds : ProgressCancelled(i)

SpecInstall == Init /\ [][NextInstall]_vars

\* the firmware update entity: installs, the monitoring task, the
\* coordinator's updates and the removal of the entity
NextFirmware ==
  \/ InstallRequested
  \/ \E success \in BOOLEAN : InstallAnswered(success)
  \/ SleepOver
  \/ \E flag \in UpdateFlags, reach \in SuccessReach :
       RefreshReturns(flag, reach)
  \/ TimeoutNotified
  \/ MonitorCancelled
  \/ CoordinatorUpdateCompletes
  \/ Teardown

SpecFirmware == Init /\ [][NextFirmware]_vars

\* the climate platform of two config entries, each device answering in its
\* own way
NextClimate ==
  \/ \E entry \in ClimateEntries : DiscoverStart(entry)
  \/ \E entry \in ClimateEntries : Get200(entry)
  \/ \E entry \in ClimateEntries : GetOtherStatus(entry)
  \/ \E entry \in ClimateEntries, zs \in DeviceZoneSets : JsonRead(entry, zs)
  \/ \E entry \in ClimateEntries : CheckRaises(entry)

SpecClimate == Init /\ [][NextClimate]_vars

\* --------------------------------------------------------------- claims
\* C1 (cache precedence).  A poll has just been processed (tick.last_answer
\* = "ok"); tick.cache and tick.timestamps are the cache as the processing
\* found it, tick.raw_data the response.  For every key K the cache held
\* with value V and the response reports with another value, inside what
\* the poll covers (a zone of zones_to_process, or a common key): the
\* facade reads V when the entry is younger than the TTL, and the polled
\* value when its age is the TTL or more.
C1_CachePrecedence ==
  tick.last_answer = "ok" =>
    \A K \in DOMAIN tick.cache \cap DOMAIN tick.raw_data :
      ( /\ tick.raw_data[K] # tick.cache[K]
        /\ IF Len(K) = 2 THEN K[1] \in tick.zones_to_process
                         ELSE K \in common_keys )
      => IF now - tick.timestamps[K] < _cache_ttl
           THEN FacadeRead(K) = {tick.cache[K]}
           ELSE FacadeRead(K) = {tick.raw_data[K]}

\* C1 witness: a poll reported another value for a key confirmed less than
\* the TTL ago, and the facade reads the confirmed value
C1_Witness ==
  /\ tick.last_answer = "ok"
  /\ \E K \in DOMAIN tick.cache \cap DOMAIN tick.raw_data :
       /\ tick.raw_data[K] # tick.cache[K]
       /\ now - tick.timestamps[K] < _cache_ttl
       /\ FacadeRead(K) = {tick.cache[K]}

\* C2 (debounce idempotence), as claimed.  For a command string
\* transmitted and invoked again within the debounce window of that
\* transmission: one request only, and once both invocations have
\* returned, the same boolean from both.
C2_SameResult ==
  \A c \in Commands :
    /\ tx[c].requests <= 1
    /\ (tx[c].suppressed # "none" /\ tx[c].state \in {"true", "false"})
         => tx[c].suppressed = tx[c].state

\* C2 as amended.  The second invocation issues no request (one request in
\* the window) and returns true whatever becomes of the first, so the two
\* booleans are the same exactly when the first request succeeds.
C2_DebounceOneRequest ==
  \A c \in Commands :
    /\ tx[c].state # "none" => tx[c].requests = 1
    /\ tx[c].suppressed \in {"none", "true"}
    /\ (tx[c].suppressed # "none" /\ tx[c].state \in {"true", "false"})
         => (tx[c].suppressed = tx[c].state <=> tx[c].state = "true")

\* C2 witness: a second invocation was suppressed inside the window and the
\* first one's request has failed
C2_Witness ==
  \E c \in Commands :
    /\ tx[c].requests = 1
    /\ tx[c].suppressed = "true"
    /\ tx[c].state = "false"

\* C3 (immediate visibility), as claimed.  send_command has just returned
\* true for a request it sent: every pair K=V the response echoed is what
\* the facade reads for K.
C3_ImmediateVisibility ==
  \A r \in last_return :
    (r.sent /\ r.result) =>
      \A K \in DOMAIN EchoBody(r.command) :
        FacadeRead(K) = {EchoBody(r.command)[K]}

\* C4 (empty active-zone fallback), as claimed.  A tick that selected the
\* Regular Phase with an empty active set has just ended with a processed
\* response: its request named every statically known zone, and if the
\* response held data for a zone, the active set is the discovered one and
\* the event was fired in the tick.
C4_FallbackUpdatesZones ==
  (tick.phase = "fallback" /\ tick.last_answer = "ok" /\ ~tick.recovery) =>
    /\ tick.request_zones = DEFAULT_ZONES
    /\ data.active_zones # {} =>
         (active_zones = data.active_zones /\ tick.event)

\* C5 (auth failure distinctness), as claimed.  A tick whose last request
\* was answered 401 ends in the authentication-failed condition, and a
\* command request answered 401 returns something else than one that met a
\* transport error.
C5_AuthDistinct ==
  /\ tick.last_answer = "unauthorized" =>
       last_exception = "ConfigEntryAuthFailed"
  /\ \A r \in last_return :
       r.answer = "unauthorized" => r.result # CommandResult("error")

\* C6 (failure escalation threshold).  fail_run counts the failed ticks in
\* a row since the coordinator was Normal with counter 0.  Outside the
\* failure handler's own recovery request: after 1 or 2 of them the
\* interval is the regular one, after the 3rd it is the error-retry delay.
C6_EscalationThreshold ==
  poll.pc # "await_recovery" =>
    /\ fail_run \in {1, 2} => update_interval = REGULAR_UPDATE_INTERVAL
    /\ fail_run = 3 => update_interval = ERROR_RETRY_DELAY

\* C6 witness: the third failed tick in a row has ended
C6_Witness ==
  /\ fail_run = 3
  /\ tick.last_answer = "failed"
  /\ update_interval = ERROR_RETRY_DELAY

C8_SuccessResets ==
  tick.last_answer = "ok" =>
    /\ _error_count = 0
    /\ update_interval = REGULAR_UPDATE_INTERVAL

\* C8 witness: a response was processed while the counter stood at the
\* threshold and the interval at the error-retry delay
C8_Witness ==
  /\ tick.last_answer = "ok"
  /\ tick.before_count >= 3
  /\ tick.before_interval = ERROR_RETRY_DELAY
  /\ _error_count = 0

\* C9 (request scoping).  While a request is out: a Regular one names only
\* zones of the active set the phase started with, a Discovery one (timed,
\* fallback, recovery) names a1, a2, b1 and b2.
C9_RequestScoping ==
  /\ (poll.pc = "await_phase" /\ poll.phase = "regular") =>
       poll.request_zones \subseteq poll.active_at_start
  /\ ( \/ poll.pc = "await_phase" /\ poll.phase \in {"discovery", "fallback"}
       \/ poll.pc = "await_recovery" )
     => poll.request_zones = {"a1", "a2", "b1", "b2"}

\* C9 witness: a Regular request is out for an active set that is not the
\* whole static list
C9_Witness ==
  /\ poll.pc = "await_phase"
  /\ poll.phase = "regular"
  /\ poll.request_zones # {}
  /\ poll.request_zones # DEFAULT_ZONES

\* C10 (zone-set stability).  A timed Discovery Phase has just reported
\* the set of zones the previous one reported (tick.repeated): it fired no
\* event itself, and nothing fired one since the previous one.
C10_ZoneSetStability ==
  tick.repeated => (~tick.event /\ ~tick.between)

\* C10 witness: two Discovery Phases in a row reported the same non-empty
\* set, which is the active set
C10_Witness ==
  /\ tick.repeated
  /\ data.active_zones # {}
  /\ active_zones = data.active_zones

\* C11 (zone-set replacement without grace).  A timed Discovery Phase has
\* just been processed and the zones its response had prefixed keys for
\* are not the set stored when the tick started: the stored set is exactly
\* the reported one, and the tick fired one event, whose payload is that
\* set.
C11_ZoneSetReplaced ==
  ( /\ tick.phase = "discovery"
    /\ tick.last_answer = "ok"
    /\ ~tick.recovery
    /\ ZonesWithData(tick.raw_data, DEFAULT_ZONES) # tick.active_at_start )
  => /\ active_zones = ZonesWithData(tick.raw_data, DEFAULT_ZONES)
     /\ tick.events = <<ZonesWithData(tick.raw_data, DEFAULT_ZONES)>>

\* C11 witness: the Discovery dropped a stored zone and added a new one
C11_Witness ==
  /\ tick.phase = "discovery"
  /\ tick.last_answer = "ok"
  /\ ~tick.recovery
  /\ tick.active_at_start \ active_zones # {}
  /\ active_zones \ tick.active_at_start # {}
  /\ Len(tick.events) = 1

\* C12 (cache provenance), as claimed.  In every step, a cache entry that
\* is new, or has another value, or a later time stamp than before, was
\* written by a send_command call that returns true in that step, from the
\* body its request was answered with.
C12_CacheProvenance ==
  [][ \A k \in DOMAIN _confirmed_cache' :
        ( \/ k \notin DOMAIN _confirmed_cache
          \/ _confirmed_cache'[k] # _confirmed_cache[k]
          \/ _cache_timestamps'[k] > _cache_timestamps[k] )
        => \E r \in last_return' :
             /\ r.sent
             /\ r.result
             /\ k \in DOMAIN EchoBody(r.command)
             /\ _confirmed_cache'[k] = EchoBody(r.command)[k] ]_vars

\* C13 (a failed command leaves the cache untouched).  In every step in
\* which a send_command call returns whose request was answered by
\* anything but an accepted status: it returns false, and the cache and
\* its time stamps are after the step what they were before it.
C13_FailedCommandFrame ==
  [][ \A r \in last_return' :
        (r.sent /\ r.raw \notin {"ok", "ok_cyrillic"}) =>
          /\ r.result = FALSE
          /\ _confirmed_cache' = _confirmed_cache
          /\ _cache_timestamps' = _cache_timestamps ]_vars

\* C13 witness: a command has failed on a timeout while the cache held an
\* entry
C13_Witness ==
  /\ \E r \in last_return : r.sent /\ r.raw = "timeout" /\ ~r.result
  /\ DOMAIN _confirmed_cache # {}

\* C14 (debounce suppression is a no-op reported as success).  In every
\* step in which a send_command call returns without having sent a
\* request: the command string was last transmitted less than the debounce
\* window ago, the call returns true, no request goes out, and no field of
\* the coordinator changes (the record of the last transmission included);
\* and in every step in which a request goes out (a call in flight that
\* was started at the present instant), the command string was not
\* transmitted less than the window ago.
C14_DebounceNoOp ==
  [][ /\ \A r \in last_return' :
           ~r.sent =>
             /\ r.command \in DOMAIN _last_commands
             /\ now - _last_commands[r.command] < _command_debounce
             /\ r.result = TRUE
             /\ inflight' = inflight
             /\ UNCHANGED coordinator_vars
      /\ \A call \in inflight' \ inflight :
           call.current_time = now =>
             ~ ( /\ call.command \in DOMAIN _last_commands
                 /\ now - _last_commands[call.command] < _command_debounce )
    ]_vars

\* C14 witness: a repeat was suppressed one second after a transmission
\* that has failed, and the record of that transmission is still one
\* second old
C14_Witness ==
  \E r \in last_return :
    /\ ~r.sent
    /\ r.result
    /\ tx[r.command].state = "false"
    /\ now - _last_commands[r.command] = 2

\* C15 (confirmed values are cached with the send timestamp).  When a
\* send_command call has returned true after a response with status "ok"
\* or its Cyrillic spelling, then for every key of the response body other
\* than "status" the cache holds the echoed value and the timestamp of the
\* entry is the time captured at the start of that call, not the time of
\* the response, whether or not the key had an entry before.
C15_SendTimestamp ==
  \A r \in last_return :
    (r.sent /\ r.result) =>
      \A k \in DOMAIN EchoBody(r.command) :
        /\ k \in DOMAIN _confirmed_cache
        /\ k \in DOMAIN _cache_timestamps
        /\ _confirmed_cache[k] = EchoBody(r.command)[k]
        /\ _cache_timestamps[k] = r.started

\* C15 witness: a success response that arrived after the call had started
\* has overwritten entries the cache already held
C15_Witness ==
  \E r \in last_return :
    /\ r.sent
    /\ r.result
    /\ r.started < now
    /\ r.overwrote
    /\ r.raw = "ok_cyrillic"

\* C16 (listener notification after commands), as claimed.  send_command
\* has just returned true for a request it sent: the registered listeners
\* were invoked in the call, whatever the state the command was issued in.
C16_ListenersNotified ==
  \A r \in last_return :
    (r.sent /\ r.result) => r.notified

\* C17 (active-zone set ownership).  Every step that changes the stored
\* active-zone set is the end of a poll tick whose timed Discovery Phase
\* was answered; the Regular Phase and its fallback request, send_command
\* with its immediate refresh, and the delayed follow-up refresh leave the
\* set as it was.
C17_ZoneSetOwnership ==
  [][ active_zones' # active_zones =>
        /\ poll.pc = "await_phase"
        /\ poll.phase = "discovery"
        /\ tick'.phase = "discovery"
        /\ tick'.last_answer = "ok"
    ]_vars

\* C17 witness: a Discovery Phase has replaced the stored set while the
\* cache held a confirmed value
C17_Witness ==
  /\ tick.phase = "discovery"
  /\ tick.last_answer = "ok"
  /\ active_zones # tick.active_at_start
  /\ DOMAIN tick.cache # {}

\* C18 (phase selection), as claimed.  A tick has just started in Normal
\* state: it runs the Discovery Phase if and only if the time elapsed since
\* the last Discovery Phase is greater than or equal to the discovery
\* interval, and the Regular Phase otherwise.
C18_SelectionInclusive ==
  ( /\ poll.pc = "await_phase"
    /\ poll.current_time = now
    /\ poll.sent_at = now
    /\ _error_count < _max_errors )
  => (poll.phase = "discovery" <=>
        now - last_discovery >= discovery_interval)

\* C18 as amended.  A tick has just started in Normal state: it runs the
\* Discovery Phase if and only if the time elapsed since the last Discovery
\* Phase is strictly greater than the discovery interval, and the Regular
\* Phase (with its fallback request when the active set is empty)
\* otherwise; a tick at exactly the interval runs the Regular Phase.
C18_SelectionStrict ==
  ( /\ poll.pc = "await_phase"
    /\ poll.current_time = now
    /\ poll.sent_at = now
    /\ _error_count < _max_errors )
  => /\ poll.phase = "discovery" <=>
          now - last_discovery > discovery_interval
     /\ poll.phase \in {"discovery", "regular", "fallback"}
     /\ now - last_discovery = discovery_interval =>
          poll.phase \in {"regular", "fallback"}

\* C18 witness: a tick started exactly one discovery interval after the
\* last Discovery Phase and runs the Regular Phase
C18_Witness ==
  /\ poll.pc = "await_phase"
  /\ poll.current_time = now
  /\ poll.sent_at = now
  /\ _error_count < _max_errors
  /\ now - last_discovery = discovery_interval
  /\ poll.phase = "regular"

\* C19 (failure counting).  A poll tick has just ended.  If its phase
\* request failed otherwise than by a 401 (and the recovery Discovery, where
\* one was made, failed too), the consecutive-failure counter is one more
\* than at the start of the tick and the tick is reported as update-failed.
\* If its phase request was answered 401, the counter and the polling
\* interval are what they were at the start of the tick and the tick is
\* reported as an authentication failure.
C19_FailureCounting ==
  /\ ( \/ tick.last_answer = "failed"
       \/ (tick.recovery /\ tick.last_answer = "unauthorized") )
     => /\ _error_count = tick.count_at_start + 1
        /\ last_exception = "UpdateFailed"
        /\ ~last_update_success
  /\ (tick.last_answer = "unauthorized" /\ ~tick.recovery)
     => /\ _error_count = tick.count_at_start
        /\ update_interval = tick.interval_at_start
        /\ last_exception = "ConfigEntryAuthFailed"
        /\ ~last_update_success

\* C19 witness: two ticks in a row have failed, the second by a timeout,
\* and the counter has gone from 0 to 2
C19_Witness ==
  /\ tick.last_answer = "failed"
  /\ tick.answer = "timeout"
  /\ tick.count_at_start = 1
  /\ _error_count = 2
  /\ fail_run = 2

C22_ZoneAvailability ==
  \A zone \in DEFAULT_ZONES :
    ZoneAvailable(zone) =>
      /\ last_poll.outcome = "ok"
      /\ zone \in last_poll.zones

\* C22 witness: the last tick failed, the snapshot kept from the tick
\* before holds valve data for a zone, a command has just succeeded, and no
\* zone is reported available
C22_Witness ==
  /\ last_poll.outcome = "failed"
  /\ \E zone \in last_poll.zones :
       /\ zone \in available_zones
       /\ _has_valve_data(get_zone_data(zone))
  /\ \E r \in last_return : r.sent /\ r.result
  /\ \A zone \in DEFAULT_ZONES : ~ZoneAvailable(zone)

\* C23 (the Discovery update is atomic with respect to Regular polling).
\* In every state of every interleaving of ticks, commands and follow-up
\* refreshes, the stored active-zone set is the one the last "zones
\* changed" event carried (the configured set while no event was fired):
\* no task sees a set assigned and not yet announced; and the request of a
\* Regular Phase in progress names the zones of that set.
C23_DiscoveryAtomic ==
  /\ disc.fired = <<active_zones>>
  /\ (poll.pc = "await_phase" /\ poll.phase = "regular") =>
       /\ poll.request_zones = active_zones
       /\ poll.request_zones = poll.active_at_start

\* C23 witness: a Regular Phase is in progress with the set a Discovery
\* has assigned and announced, while a command and a follow-up refresh wait
\* for the device
C23_Witness ==
  /\ poll.pc = "await_phase"
  /\ poll.phase = "regular"
  /\ disc.fired = <<poll.request_zones>>
  /\ disc.reports = <<poll.request_zones>>
  /\ inflight # {}
  /\ refresh # {}

\* C24 (concurrent commands, last completion wins).  In every step in
\* which a send_command call returns true for a request it sent, the cache
\* holds afterwards, for every key of its response, the value of that
\* response, whatever an earlier response left there and whichever call
\* was started first; and a key's value changes in no other step.
C24_LastCompletionWins ==
  [][ /\ \A r \in last_return' :
           (r.sent /\ r.result) =>
             \A k \in DOMAIN EchoBody(r.command) :
               /\ k \in DOMAIN _confirmed_cache'
               /\ _confirmed_cache'[k] = EchoBody(r.command)[k]
      /\ \A k \in DOMAIN _confirmed_cache \cap DOMAIN _confirmed_cache' :
           _confirmed_cache'[k] # _confirmed_cache[k] =>
             \E r \in last_return' :
               r.sent /\ r.result /\ k \in DOMAIN EchoBody(r.command)
    ]_vars

\* C24 witness: of two calls in flight together the one started first was
\* answered last, and the cache holds its value over the other's
C24_Witness ==
  \E r \in last_return, c \in RivalCommands :
    /\ r.sent
    /\ r.result
    /\ r.overwrote
    /\ c # r.command
    /\ tx[c].state = "true"
    /\ tx[c].time > r.started
    /\ \A k \in DOMAIN EchoBody(c) :
         /\ k \in DOMAIN EchoBody(r.command)
         /\ _confirmed_cache[k] = EchoBody(r.command)[k]
         /\ _confirmed_cache[k] # EchoBody(c)[k]

\* C25 (no visual rollback by a racing poll), as claimed.  A poll response
\* has just been processed whose request was out when a command confirmed
\* K=V and the facade showed V: where the response reports another value
\* for K, the facade does not read that value.
C25_NoRollback ==
  tick.last_answer = "ok" =>
    \A K \in tick.shown :
      ( /\ K \in DOMAIN tick.cache
        /\ K \in DOMAIN tick.raw_data
        /\ tick.raw_data[K] # tick.cache[K] )
      => FacadeRead(K) # {tick.raw_data[K]}

\* C25 as amended.  The same, for a response processed less than the TTL
\* after the start of the command that confirmed K=V: the facade still
\* reads V.  A response processed later puts the device's value back.
C25_NoRollbackInsideTtl ==
  tick.last_answer = "ok" =>
    \A K \in tick.shown :
      ( /\ K \in DOMAIN tick.cache
        /\ K \in DOMAIN tick.raw_data
        /\ tick.raw_data[K] # tick.cache[K] )
      => IF now - tick.timestamps[K] < _cache_ttl
           THEN FacadeRead(K) = {tick.cache[K]}
           ELSE FacadeRead(K) = {tick.raw_data[K]}

\* C25 witness: a command confirmed a value while a poll's request was out,
\* the facade showed it, and the poll's response, processed inside the TTL
\* with another value, has left it in place
C25_Witness ==
  /\ tick.last_answer = "ok"
  /\ \E K \in tick.shown :
       /\ K \in DOMAIN tick.cache
       /\ K \in DOMAIN tick.raw_data
       /\ tick.raw_data[K] # tick.cache[K]
       /\ now - tick.timestamps[K] < _cache_ttl
       /\ FacadeRead(K) = {tick.cache[K]}

\* C26 (instance isolation).  Of the coordinators of two devices, every
\* step that is none of an instance's own (a request, a response or a
\* failure of the other instance) leaves the failure counter that instance
\* consults, like its data and its availability, as it was.
C26_InstanceIsolation ==
  [][ \A entry \in ClimateEntries :
        climate'[entry] = climate[entry] => try_counter' = try_counter
    ]_vars

\* C27 (read accessors are pure snapshots).  In every step in which a
\* consumer calls a read accessor, or changes the set the active-zone
\* accessor (or the zones-with-data accessor) returned to it, every field of
\* the coordinator, the active-zone set among them, is left as it was; and
\* get_zone_data called for a zone that had no data in the last poll that
\* succeeded, or before any poll succeeded, returns the empty map.
C27_ReadAccessorsPure ==
  [][ reader' # reader =>
        /\ UNCHANGED <<coordinator_vars, poll, inflight, refresh>>
        /\ ( /\ reader'.accessor = "get_zone_data"
             /\ reader'.zone \notin last_poll.zones )
           => reader'.map = Empty
    ]_vars

\* C27 witness: with a snapshot in place, a consumer has added an unknown
\* zone to the set the active-zone accessor returned, and the coordinator's
\* set does not have it
C27_Witness ==
  /\ data.present
  /\ reader.accessor = "zones"
  /\ reader.mutated
  /\ reader.set # active_zones
  /\ active_zones # {}

C29_RefreshWriteSet ==
  [][ tick'.phase = "refresh" =>
        /\ \A key \in DOMAIN _confirmed_cache \cup DOMAIN _confirmed_cache' :
             ( \/ key \notin DOMAIN _confirmed_cache
               \/ key \notin DOMAIN _confirmed_cache'
               \/ _confirmed_cache'[key] # _confirmed_cache[key]
               \/ _cache_timestamps'[key] # _cache_timestamps[key] )
             => /\ Len(key) = 2
                /\ key[1] \in tick'.request_zones
                /\ key[2] \in {"target_temp", "power_state", "away_mode",
                               "nightmode", "eco_mode", "temperature"}
        /\ tick'.answer \in RefreshFailureAnswers =>
             UNCHANGED <<_confirmed_cache, _cache_timestamps, data>>
        /\ UNCHANGED <<active_zones, _error_count, update_interval>>
    ]_vars

\* C29 witness: a delayed refresh for a1 has just ended well on a response
\* with a1_target_temp, a1_valve_pos and keys of b1: the cache holds
\* a1_target_temp with the response's value, stamped now, and nothing else
C29_Witness ==
  /\ tick.phase = "refresh"
  /\ tick.answer = "ok"
  /\ tick.request_zones = {"a1"}
  /\ {<<"a1", "valve_pos">>, <<"b1", "target_temp">>} \subseteq
       DOMAIN tick.raw_data
  /\ DOMAIN _confirmed_cache = {<<"a1", "target_temp">>}
  /\ _confirmed_cache[<<"a1", "target_temp">>] =
       tick.raw_data[<<"a1", "target_temp">>]
  /\ _cache_timestamps[<<"a1", "target_temp">>] = now
  /\ data.present

C31_PresetPrecedence ==
  LET night == Bool(FlagValue(thermostat.data, "nightmode"))
      away == Bool(FlagValue(thermostat.data, "away_mode"))
      eco == Bool(FlagValue(thermostat.data, "eco_mode"))
  IN /\ night => thermostat.reported = "sleep"
     /\ (~night /\ away) => thermostat.reported = "away"
     /\ (~night /\ ~away /\ ~eco) => thermostat.reported = "comfort"
     /\ (~night /\ ~away /\ eco) => thermostat.reported = "home"
     /\ thermostat.reported \in SUPPORT_PRESETS

\* C31 witness: the three flags are set together and the entity reports
\* "sleep"
C31_Witness ==
  /\ thermostat.has_entry
  /\ \A flag \in PresetFlags : FlagValue(thermostat.data, flag) = 1
  /\ thermostat.reported = "sleep"

\* C32 (preset round trip).  When the device has just confirmed the
\* assignments of the command async_set_preset_mode sent for a supported
\* preset p, whatever the flags were before, the entity reports p.
C32_PresetRoundTrip ==
  ( /\ thermostat.confirmed
    /\ thermostat.requested \in SUPPORT_PRESETS )
  => thermostat.reported = thermostat.requested

\* C33 (scheduler state invariant).  Whenever no poll is in progress, the
\* polling interval is the error-retry delay (60 s) if and only if the
\* consecutive-failure counter is at least 3, and the regular interval
\* (20 s) otherwise.
C33_SchedulerState ==
  poll.pc = "idle" =>
    /\ (update_interval = ERROR_RETRY_DELAY) <=> (_error_count >= 3)
    /\ _error_count < 3 => update_interval = REGULAR_UPDATE_INTERVAL

\* C33 witness: a tick has just ended failed, its recovery Discovery
\* included, with the counter at the threshold or above and the interval
\* at the error-retry delay
C33_Witness ==
  /\ poll.pc = "idle"
  /\ tick.last_answer = "failed"
  /\ tick.recovery
  /\ _error_count >= 3
  /\ update_interval = ERROR_RETRY_DELAY

\* C34 (the cache maps stay aligned).  In every reachable state, after any
\* sequence of polls, commands, follow-up refreshes, freezes and sweeps, the
\* confirmed-value map and the cache-timestamp map have the same key set.
C34_CacheMapsAligned ==
  DOMAIN _confirmed_cache = DOMAIN _cache_timestamps

\* C34 witness: a tick has just ended well whose sweep deleted a key both
\* maps held, and both still hold a key written later
C34_Witness ==
  /\ tick.last_answer = "ok"
  /\ \E k \in DOMAIN tick.cache : k \notin DOMAIN _confirmed_cache
  /\ DOMAIN _confirmed_cache # {}
  /\ DOMAIN _cache_timestamps = DOMAIN _confirmed_cache

\* C35 (recovery Discovery in the failure handler).  In every step that
\* ends a tick whose phase failed with a non-auth error, whose counter
\* thereby reached 3 or more, and whose recovery Discovery was answered
\* well: the tick is reported as a successful poll, the snapshot is the
\* recovery response's data, the counter is 0 and the interval the regular
\* one, the active-zone set and the last-discovery time are unchanged, and
\* no "zones changed" event is fired.
C35_RecoverySucceeds ==
  [][ (tick'.recovery /\ tick'.last_answer = "ok") =>
        /\ _error_count >= 3
        /\ last_update_success'
        /\ last_exception' = None
        /\ data'.present
        /\ data'.active_zones =
             {zone \in DEFAULT_ZONES :
                \E key \in DOMAIN tick'.raw_data :
                  Len(key) = 2 /\ key[1] = zone}
        /\ DOMAIN data'.zones = data'.active_zones
        /\ _error_count' = 0
        /\ update_interval' = REGULAR_UPDATE_INTERVAL
        /\ UNCHANGED <<active_zones, last_discovery>>
        /\ ~tick'.event
        /\ disc'.fired = disc.fired
    ]_vars

\* C35 witness: a recovery Discovery has just been answered well after the
\* third failure; the snapshot's zones are not the active set, which is as
\* it was
C35_Witness ==
  /\ tick.recovery
  /\ tick.last_answer = "ok"
  /\ tick.before_count >= 3
  /\ last_update_success
  /\ data.present
  /\ data.active_zones # active_zones
  /\ data.active_zones # {}
  /\ _error_count = 0

\* C36 (the discovery timer advances only on success).  In every step:
\* when the request of a timed Discovery is answered with a failure, a 401
\* included, and when the recovery Discovery of such a tick is answered in
\* any way, the last-discovery time is left as it was and a tick starting
\* then selects Discovery; the selection stays so until a timed Discovery
\* is answered well; a timed Discovery answered well sets the
\* last-discovery time to the time taken at the start of its tick; and in
\* every other step the last-discovery time is unchanged but for the
\* passing of time.
C36_DiscoveryTimer ==
  [][ LET timed_ok == /\ poll.pc = "await_phase"
                      /\ poll.phase = "discovery"
                      /\ tick'.phase = "discovery"
                      /\ tick'.last_answer = "ok"
                      /\ ~tick'.recovery
          timed_failed == /\ poll.pc # "idle"
                          /\ poll.phase = "discovery"
                          /\ poll'.pc # poll.pc
                          /\ ~timed_ok
          clock == /\ tick' = NoTick
                   /\ \E d \in TimeSteps :
                        last_discovery' =
                          Past(last_discovery, d, MaxPollElapsed,
                               discovery_interval)
      IN /\ timed_failed =>
              /\ last_discovery' = last_discovery
              /\ SelectPhase(now, last_discovery', active_zones') =
                   "discovery"
         /\ (SelectDiscovery(now, last_discovery) /\ ~timed_ok) =>
              SelectDiscovery(now, last_discovery')
         /\ timed_ok => last_discovery' = poll.current_time
         /\ last_discovery' # last_discovery => timed_ok \/ clock
    ]_vars

\* C36 witness: a timed Discovery that followed a poll answered well has
\* just failed, and a tick starting now selects Discovery
C36_Witness ==
  /\ tick.phase = "discovery"
  /\ tick.last_answer = "failed"
  /\ ~tick.recovery
  /\ data.present
  /\ ~last_update_success
  /\ SelectPhase(now, last_discovery, active_zones) = "discovery"

\* C37 (frame of the immediate refresh).  In every step in which a command
\* is confirmed and the snapshot refreshed without a request: the snapshot
\* has the zones, the parameter names of each zone, the common keys and the
\* set of zones with data it had; a value that differs from the one before
\* is the cached value of a key whose cache entry is younger than the TTL;
\* and the active-zone set, the failure counter, the polling interval, the
\* last-discovery time and the availability flag are unchanged.
C37_ImmediateRefreshFrame ==
  [][ (\E r \in last_return' : r.sent /\ r.answer = "ok") =>
        /\ data'.present = data.present
        /\ data.present =>
             /\ DOMAIN data'.zones = DOMAIN data.zones
             /\ DOMAIN data'.common = DOMAIN data.common
             /\ data'.active_zones = data.active_zones
             /\ \A zone \in DOMAIN data.zones :
                  /\ DOMAIN data'.zones[zone] = DOMAIN data.zones[zone]
                  /\ \A param_name \in DOMAIN data.zones[zone] :
                       data'.zones[zone][param_name] #
                         data.zones[zone][param_name]
                       => /\ CacheFresh(_confirmed_cache', _cache_timestamps',
                                        CacheKey(zone, param_name), now)
                          /\ data'.zones[zone][param_name] =
                               _confirmed_cache'[CacheKey(zone, param_name)]
             /\ \A key \in DOMAIN data.common :
                  data'.common[key] # data.common[key]
                  => /\ CacheFresh(_confirmed_cache', _cache_timestamps',
                                   key, now)
                     /\ data'.common[key] = _confirmed_cache'[key]
        /\ ~data.present => data' = data
        /\ UNCHANGED <<active_zones, _error_count, update_interval,
                       last_discovery, last_update_success>>
    ]_vars

\* C37 witness: a command has just been confirmed; the snapshot has no zone
\* a1, whose target the cache holds fresh, and its common key summermode
\* shows the cached value
C37_Witness ==
  /\ \E r \in last_return : r.sent /\ r.answer = "ok"
  /\ data.present
  /\ "a1" \notin DOMAIN data.zones
  /\ CacheFresh(_confirmed_cache, _cache_timestamps,
                CacheKey("a1", "target_temp"), now)
  /\ <<"summermode">> \in DOMAIN data.common
  /\ data.common[<<"summermode">>] = 1

\* C38 (convergence of the active-zone set).  Once the device has come to
\* answer every request well, always with data for the same zones Z, then
\* with ticks that keep starting and time that keeps passing the stored
\* active-zone set is Z from some point on for ever, whatever the set, the
\* failure counter and the interval were when the device settled.
C38_ActiveZonesConverge ==
  device.stable ~> [](active_zones = device.zones)

\* C38 witness: the device settled on a1 with the coordinator on the retry
\* delay and no active zone; a timed Discovery has just made a1 the active
\* set
C38_Witness ==
  /\ device.stable
  /\ device.zones = {"a1"}
  /\ tick.phase = "discovery"
  /\ tick.last_answer = "ok"
  /\ tick.active_at_start = {}
  /\ tick.before_interval = ERROR_RETRY_DELAY
  /\ active_zones = {"a1"}

\* C39 (single firmware install in flight).  While the entity is marked
\* installing it reports no update available, and at most one flash
\* command has been sent since the mark was set.
C39_SingleInstall ==
  updater._installing =>
    /\ ~update_available
    /\ updater.flashes <= 1

\* C40 (firmware completion handled exactly once).  Of the installs that
\* were started, no more success notifications have been created and no
\* more final states written by _handle_update_success than there were
\* installs.
C40_CompletionOnce ==
  /\ updater.shown <= updater.started
  /\ updater.written <= updater.started

====
